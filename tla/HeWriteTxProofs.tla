-------------------------- MODULE HeWriteTxProofs --------------------------
(***************************************************************************)
(* Proofs about HeWriteTx, for any connections, entries, values and number *)
(* of calls: types, that readers see whole documents as long as no BEGIN   *)
(* was refused, that updates keep the entries they do not name, and that   *)
(* the statements of a call implement the one step of HeAtomic.            *)
(***************************************************************************)
EXTENDS HeWriteTx, TLAPS

\* Which calls may stand at which statement.
Placing(label, op) ==
    /\ label = "begin"  => op \in {"set", "remove", "leaf", "full"}
    /\ label = "delete" => op \in {"set", "remove", "full", "erase"}
    /\ label = "clear"  => op \in {"remove", "leaf", "erase"}
    /\ label \in {"ensure", "root", "rows"} => op \in {"set", "leaf", "full"}
    /\ label = "hash"   => op \in {"set", "full"}
    /\ label = "commit" => op \in {"set", "remove", "leaf", "full"}

Placed(c) == /\ Placing(pc[c], job[c].op)
             /\ writer = c => job[c].op # "erase"

\* The type invariant made inductive: update with null never holds the lock.
TInv == TypeOK /\ \A c \in Conns : Placed(c)

Labels == {"idle", "begin", "delete", "clear", "ensure", "root", "rows",
           "hash", "commit", "end"}

-----------------------------------------------------------------------------
(* Rows *)

LEMMA RowsIs ==
    ASSUME NEW S \in SUBSET Entries, NEW r \in [S -> Values]
    PROVE  r \in Rows
BY DEF Rows

LEMMA RowsHas ==
    ASSUME NEW r \in Rows
    PROVE  DOMAIN r \subseteq Entries /\ r \in [DOMAIN r -> Values]
BY DEF Rows

LEMMA UpdateHas ==
    ASSUME NEW u \in Update
    PROVE  DOMAIN u \subseteq Entries /\ u \in [DOMAIN u -> Values \cup {Null}]
BY DEF Update

LEMMA RowsAreUpdates ==
    ASSUME NEW r \in Rows
    PROVE  r \in Update
BY RowsHas DEF Update

LEMMA NoRowsType == NoRows \in Rows /\ DOMAIN NoRows = {}
<1>1. NoRows \in [{} -> Values] /\ DOMAIN NoRows = {}
  BY DEF NoRows
<1> QED
  BY <1>1, RowsIs

LEMMA MergedChar ==
    ASSUME NEW r, NEW u
    PROVE  \A e : /\ e \in DOMAIN Merged(r, u) <=> IF e \in DOMAIN u THEN u[e] # Null
                                                   ELSE e \in DOMAIN r
                  /\ e \in DOMAIN Merged(r, u)
                       => Merged(r, u)[e] = IF e \in DOMAIN u THEN u[e] ELSE r[e]
BY DEF Merged

LEMMA MergedType ==
    ASSUME NEW r \in Rows, NEW u \in Update
    PROVE  Merged(r, u) \in Rows
<1> DEFINE m == Merged(r, u)
<1>1. m \in [DOMAIN m -> Values]
  <2>1. \A e \in DOMAIN m : m[e] \in Values
    BY RowsHas, UpdateHas, MergedChar
  <2> QED
    BY <2>1 DEF Merged
<1>2. DOMAIN m \subseteq Entries
  BY RowsHas, UpdateHas, MergedChar
<1> QED
  BY <1>1, <1>2, RowsIs

LEMMA PutType ==
    ASSUME NEW r \in Rows, NEW e \in Entries, NEW v \in Values
    PROVE  Put(r, e, v) \in Rows
<1>1. Put(r, e, v) \in [DOMAIN r \cup {e} -> Values]
  BY RowsHas DEF Put
<1> QED
  BY <1>1, RowsHas, RowsIs

LEMMA WithoutType ==
    ASSUME NEW r \in Rows, NEW e
    PROVE  Without(r, e) \in Rows
<1>1. Without(r, e) \in [DOMAIN r \ {e} -> Values]
  BY RowsHas DEF Without
<1> QED
  BY <1>1, RowsHas, RowsIs

\* Rows that agree on every entry are the same.
LEMMA RowsEqual ==
    ASSUME NEW r \in Rows, NEW s \in Rows,
           \A e \in Entries : /\ e \in DOMAIN r <=> e \in DOMAIN s
                              /\ e \in DOMAIN r => r[e] = s[e]
    PROVE  r = s
<1>1. DOMAIN r = DOMAIN s
  BY RowsHas
<1>2. /\ r \in [DOMAIN r -> Values] /\ s \in [DOMAIN r -> Values]
      /\ \A e \in DOMAIN r : r[e] = s[e]
  BY <1>1, RowsHas
<1> QED
  BY <1>2

-----------------------------------------------------------------------------
(* Types *)

LEMMA SeenType ==
    ASSUME TypeOK, NEW c \in Conns
    PROVE  Seen(c) \in Tables
BY DEF TypeOK, Seen

LEMMA StatementType ==
    ASSUME TypeOK, NEW c \in Conns, NEW new \in Tables, Statement(c, new)
    PROVE  /\ db' \in Tables /\ work' \in Tables
           /\ pin' \in [Conns -> {"none", "current", "stale"}]
           /\ overtaken' \subseteq Conns
           /\ UNCHANGED <<writer, clock, exposed>>
BY DEF TypeOK, Statement, Overtake

\* A step of c that moves c only.
LEMMA Moved ==
    ASSUME TInv, NEW c \in Conns, NEW l \in Labels,
           db' \in Tables, work' \in Tables,
           writer' = writer \/ writer' = NoOne \/ (writer' = c /\ job'[c].op # "erase"),
           clock' \in 0..MaxCalls,
           pc' = [pc EXCEPT ![c] = l],
           job' \in [Conns -> Job],
           \A d \in Conns \ {c} : job'[d] = job[d],
           Placing(l, job'[c].op),
           writer' = c => l \notin {"idle", "begin", "end"} /\ job'[c].op # "erase",
           pin' \in [Conns -> {"none", "current", "stale"}],
           overtaken' \subseteq Conns,
           exposed' \in BOOLEAN
    PROVE  TInv'
<1>1. pc' \in [Conns -> Labels] /\ pc'[c] = l /\ \A d \in Conns \ {c} : pc'[d] = pc[d]
  BY DEF TInv, TypeOK, Labels
<1>2. writer' \in Conns \cup {NoOne}
  BY DEF TInv, TypeOK
<1>3. \A d \in Conns \ {c} : writer' = d => writer = d
  BY NoOneAssumption
<1>4. \A d \in Conns : writer' = d => pc'[d] \notin {"idle", "begin", "end"}
  BY <1>1, <1>3 DEF TInv, TypeOK
<1>5. TypeOK'
  BY <1>1, <1>2, <1>4 DEF TypeOK, Labels
<1>6. \A d \in Conns : Placed(d)'
  BY <1>1, <1>3 DEF TInv, Placed
<1> QED
  BY <1>5, <1>6 DEF TInv

LEMMA TypeInit == Init => TInv
<1> SUFFICES ASSUME Init PROVE TInv
  OBVIOUS
<1>1. db \in Tables /\ work \in Tables
  BY NoRowsType DEF Init, Tables
<1>2. NoJob \in Job
  BY NoRowsType, RowsAreUpdates DEF NoJob, Job
<1>3. \A c \in Conns : writer # c
  BY NoOneAssumption DEF Init
<1>4. clock \in 0..MaxCalls
  BY MaxCallsAssumption DEF Init
<1>5. TypeOK
  BY <1>1, <1>2, <1>3, <1>4 DEF Init, TypeOK
<1>6. \A c \in Conns : Placed(c)
  BY <1>3 DEF Init, Placed, Placing, NoJob
<1> QED
  BY <1>5, <1>6 DEF TInv

LEMMA TypeStart ==
    ASSUME TInv, NEW c \in Conns, NEW l \in {"begin", "delete"},
           NEW o \in {"set", "remove", "leaf", "full", "erase"},
           Placing(l, o),
           NEW u \in Update, NEW g \in Rows, Start(c, l, o, u, g),
           pin' \in [Conns -> {"none", "current", "stale"}]
    PROVE  TInv'
<1> DEFINE j == [op |-> o, arg |-> u, goal |-> g, todo |-> DOMAIN g, rev |-> clock + 1]
<1>1. /\ pc[c] = "idle" /\ clock < MaxCalls /\ clock' = clock + 1
      /\ job' = [job EXCEPT ![c] = j]
      /\ pc' = [pc EXCEPT ![c] = l]
      /\ UNCHANGED <<db, work, writer, overtaken, exposed>>
  BY DEF Start, Goto
<1>2. clock \in Nat /\ clock' \in 0..MaxCalls
  BY <1>1, MaxCallsAssumption DEF TInv, TypeOK
<1>3. j \in Job
  BY <1>2, RowsHas DEF Job
<1>4. job' \in [Conns -> Job] /\ job'[c] = j /\ \A d \in Conns \ {c} : job'[d] = job[d]
  BY <1>1, <1>3 DEF TInv, TypeOK
<1>5. writer' # c
  BY <1>1 DEF TInv, TypeOK
<1>6. Placing(l, job'[c].op) /\ l \in Labels
  BY <1>4 DEF Labels
<1> HIDE DEF j
<1> QED
  BY <1>1, <1>2, <1>4, <1>5, <1>6, Moved DEF TInv, TypeOK

LEMMA TypeCall ==
    ASSUME TInv, NEW c \in Conns, Call(c)
    PROVE  TInv'
<1>1. pin \in [Conns -> {"none", "current", "stale"}] /\ db.rows \in Rows
  BY DEF TInv, TypeOK, Tables
<1>2. NoRows \in Rows /\ NoRows \in Update
  BY NoRowsType, RowsAreUpdates
<1>3. CASE StartRemove(c)
  BY <1>1, <1>2, <1>3, TypeStart DEF StartRemove, Placing
<1>4. CASE StartErase(c)
  BY <1>1, <1>2, <1>4, TypeStart DEF StartErase, Placing
<1>5. ASSUME NEW t \in Texts, StartSet(c, t) PROVE TInv'
  <2>1. t \in Rows /\ t \in Update
    BY InputAssumption, RowsAreUpdates
  <2>2. pin' \in [Conns -> {"none", "current", "stale"}]
    BY <1>1, <1>5 DEF StartSet
  <2> QED
    BY <1>5, <2>1, <2>2, TypeStart DEF StartSet, Placing
<1>6. ASSUME NEW u \in Updates, StartLeaf(c, u) PROVE TInv'
  <2>1. u \in Update /\ Merged(NoRows, u) \in Rows
    BY <1>2, InputAssumption, MergedType
  <2> QED
    BY <1>1, <1>6, <2>1, TypeStart DEF StartLeaf, Placing
<1>7. ASSUME NEW u \in Updates, StartFull(c, u) PROVE TInv'
  <2>1. u \in Update /\ Merged(db.rows, u) \in Rows
    BY <1>1, InputAssumption, MergedType
  <2> QED
    BY <1>1, <1>7, <2>1, TypeStart DEF StartFull, Placing
<1> QED
  BY <1>3, <1>4, <1>5, <1>6, <1>7 DEF Call

\* A statement of c that moves c only.
LEMMA TypeStatement ==
    ASSUME TInv, NEW c \in Conns, NEW new \in Tables, Statement(c, new), NEW l \in Labels,
           pc' = [pc EXCEPT ![c] = l],
           job' \in [Conns -> Job],
           \A d \in Conns \ {c} : job'[d] = job[d],
           job'[c].op = job[c].op,
           Placing(l, job[c].op),
           l \notin {"idle", "begin", "end"} \/ job[c].op = "erase"
    PROVE  TInv'
<1>1. /\ db' \in Tables /\ work' \in Tables
      /\ pin' \in [Conns -> {"none", "current", "stale"}]
      /\ overtaken' \subseteq Conns
      /\ UNCHANGED <<writer, clock, exposed>>
  BY StatementType DEF TInv
<1>2. writer' = c => l \notin {"idle", "begin", "end"} /\ job'[c].op # "erase"
  BY <1>1 DEF TInv, Placed
<1> QED
  BY <1>1, <1>2, Moved DEF TInv, TypeOK

LEMMA TypeStep ==
    ASSUME TInv, NEW c \in Conns, Step(c)
    PROVE  TInv'
<1>1. /\ TypeOK /\ Placed(c) /\ job \in [Conns -> Job] /\ job[c] \in Job
      /\ db \in Tables /\ work \in Tables /\ Seen(c) \in Tables
      /\ clock \in 0..MaxCalls /\ exposed \in BOOLEAN /\ overtaken \subseteq Conns
      /\ pin \in [Conns -> {"none", "current", "stale"}]
  BY SeenType DEF TInv, TypeOK
<1>2. /\ job[c].goal \in Rows /\ job[c].arg \in Update /\ job[c].rev \in Nat
      /\ job[c].todo \in SUBSET Entries
      /\ Seen(c).rows \in Rows /\ NoRows \in Rows
  BY <1>1, NoRowsType DEF Job, Tables
<1>3. CASE BeginDone(c)
  <2>1. AfterBegin(c) \in Labels \ {"idle", "begin", "end"} /\ Placing(AfterBegin(c), job[c].op)
        /\ job[c].op # "erase"
    BY <1>1, <1>3 DEF BeginDone, AfterBegin, Placed, Placing, Labels
  <2> QED
    BY <1>1, <1>3, <2>1, Moved DEF BeginDone, Goto
<1>4. CASE BeginRefused(c)
  <2>1. AfterBegin(c) \in Labels \ {"idle", "begin", "end"} /\ Placing(AfterBegin(c), job[c].op)
    BY <1>1, <1>4 DEF BeginRefused, AfterBegin, Placed, Placing, Labels
  <2>2. writer # c
    BY <1>4 DEF BeginRefused, TInv, TypeOK
  <2> QED
    BY <1>1, <1>4, <2>1, <2>2, Moved DEF BeginRefused, Goto
<1>5. CASE Delete(c)
  <2> DEFINE l == IF job[c].op \in {"remove", "erase"} THEN "clear" ELSE "ensure"
             new == [Seen(c) EXCEPT !.root = 0, !.rows = NoRows]
  <2>1. Placing(l, job[c].op) /\ l \in Labels \ {"idle", "begin", "end"}
    BY <1>1, <1>5 DEF Delete, Placed, Placing, Labels
  <2>2. new \in Tables
    BY <1>1, <1>2 DEF Tables
  <2>3. Statement(c, new) /\ pc' = [pc EXCEPT ![c] = l] /\ job' = job
    BY <1>5 DEF Delete, Goto
  <2> HIDE DEF l, new
  <2> QED
    BY <1>1, <2>1, <2>2, <2>3, TypeStatement
<1>6. CASE Clear(c)
  <2> DEFINE new == [Seen(c) EXCEPT !.hash = [rev |-> 0, text |-> NoRows]]
  <2>1. /\ Placing(AfterClear(c), job[c].op) /\ AfterClear(c) \in Labels
        /\ AfterClear(c) \notin {"idle", "begin", "end"} \/ job[c].op = "erase"
    BY <1>1, <1>6 DEF Clear, AfterClear, Placed, Placing, Labels
  <2>2. new \in Tables
    BY <1>1, <1>2 DEF Tables
  <2>3. Statement(c, new) /\ pc' = [pc EXCEPT ![c] = AfterClear(c)] /\ job' = job
    BY <1>6 DEF Clear, Goto
  <2> HIDE DEF new
  <2> QED
    BY <1>1, <2>1, <2>2, <2>3, TypeStatement
<1>7. CASE Ensure(c)
  <2>1. Placing("root", job[c].op)
    BY <1>1, <1>7 DEF Ensure, Placed, Placing
  <2>2. writer = c => job[c].op # "erase"
    BY <1>1 DEF Placed
  <2>3. pin' \in [Conns -> {"none", "current", "stale"}]
    BY <1>1, <1>7 DEF Ensure
  <2> QED
    BY <1>1, <1>7, <2>1, <2>2, <2>3, Moved DEF Ensure, Goto, Labels
<1>8. CASE Root(c)
  <2> DEFINE p == IF job[c].op = "leaf" THEN Merged(Seen(c).rows, job[c].arg) ELSE job[c].goal
             new == [Seen(c) EXCEPT !.root = job[c].rev, !.promised = p]
             t == IF job[c].op = "leaf" THEN DOMAIN job[c].arg ELSE job[c].todo
  <2>1. Placing("rows", job[c].op)
    BY <1>1, <1>8 DEF Root, Placed, Placing
  <2>2. p \in Rows
    BY <1>2, MergedType
  <2>3. new \in Tables
    BY <1>1, <1>2, <2>2 DEF Tables
  <2>4. Statement(c, new) /\ pc' = [pc EXCEPT ![c] = "rows"]
    BY <1>8 DEF Root, Goto
  <2>5. job' = [job EXCEPT ![c].todo = t]
    BY <1>1, <1>8 DEF Root
  <2>6. t \in SUBSET Entries
    BY <1>2, UpdateHas
  <2>7. job' \in [Conns -> Job] /\ job'[c].op = job[c].op
    BY <1>1, <2>5, <2>6 DEF Job
  <2>8. \A d \in Conns \ {c} : job'[d] = job[d]
    BY <1>1, <2>5
  <2> HIDE DEF p, new, t
  <2> QED
    BY <2>1, <2>3, <2>4, <2>7, <2>8, TypeStatement DEF Labels
<1>9. CASE RowsDone(c)
  <2> DEFINE l == IF job[c].op = "leaf" THEN "commit" ELSE "hash"
  <2>1. Placing(l, job[c].op) /\ l \in Labels \ {"idle", "begin", "end"}
    BY <1>1, <1>9 DEF RowsDone, Placed, Placing, Labels
  <2>2. writer = c => job[c].op # "erase"
    BY <1>1 DEF Placed
  <2>3. pc' = [pc EXCEPT ![c] = l] /\ UNCHANGED <<db, work, writer, clock, job, pin, overtaken, exposed>>
    BY <1>9 DEF RowsDone, Goto
  <2> HIDE DEF l
  <2> QED
    BY <1>1, <2>1, <2>2, <2>3, Moved
<1>10. CASE Hash(c)
  <2> DEFINE new == [Seen(c) EXCEPT !.hash = [rev |-> job[c].rev, text |-> Hashed(c)]]
  <2>1. Placing("commit", job[c].op)
    BY <1>1, <1>10 DEF Hash, Placed, Placing
  <2>2. new \in Tables
    BY <1>1, <1>2 DEF Tables, Hashed
  <2>3. Statement(c, new) /\ pc' = [pc EXCEPT ![c] = "commit"] /\ job' = job
    BY <1>10 DEF Hash, Goto
  <2> HIDE DEF new
  <2> QED
    BY <1>1, <2>1, <2>2, <2>3, TypeStatement DEF Labels
<1>11. CASE Commit(c)
  <2>1. /\ db' \in Tables /\ work' \in Tables /\ overtaken' \subseteq Conns
        /\ pin' \in [Conns -> {"none", "current", "stale"}]
        /\ writer' = writer \/ writer' = NoOne
        /\ writer' # c
    BY <1>1, <1>11, NoOneAssumption DEF Commit, Overtake
  <2>2. Placing("end", job[c].op)
    BY DEF Placing
  <2> QED
    BY <1>1, <1>11, <2>1, <2>2, Moved DEF Commit, Goto, Labels
<1>12. CASE Return(c)
  <2>1. NoJob \in Job /\ Placing("idle", NoJob.op)
    BY <1>2, RowsAreUpdates DEF NoJob, Job, Placing
  <2>2. /\ job' \in [Conns -> Job] /\ job'[c] = NoJob
        /\ \A d \in Conns \ {c} : job'[d] = job[d]
        /\ pin' \in [Conns -> {"none", "current", "stale"}]
    BY <1>1, <1>12, <2>1 DEF Return
  <2>3. writer # c
    BY <1>12 DEF Return, TInv, TypeOK
  <2> QED
    BY <1>1, <1>12, <2>1, <2>2, <2>3, Moved DEF Return, Goto, Labels
<1>13. ASSUME NEW e \in Entries, Row(c, e) PROVE TInv'
  <2> DEFINE r == IF e \in DOMAIN job[c].goal THEN Put(Seen(c).rows, e, job[c].goal[e])
                  ELSE Without(Seen(c).rows, e)
             new == [Seen(c) EXCEPT !.rows = r]
  <2>1. r \in Rows
    BY <1>2, RowsHas, PutType, WithoutType
  <2>2. new \in Tables
    BY <1>1, <2>1 DEF Tables
  <2>3. Statement(c, new) /\ pc[c] = "rows" /\ pc' = [pc EXCEPT ![c] = "rows"]
    BY <1>1, <1>13 DEF Row, Tables, TypeOK
  <2>4. job' = [job EXCEPT ![c].todo = job[c].todo \ {e}]
    BY <1>1, <1>13 DEF Row
  <2>5. job' \in [Conns -> Job] /\ job'[c].op = job[c].op
    BY <1>1, <1>2, <2>4 DEF Job
  <2>6. \A d \in Conns \ {c} : job'[d] = job[d]
    BY <1>1, <2>4
  <2>7. Placing("rows", job[c].op)
    BY <1>1, <2>3 DEF Placed
  <2> HIDE DEF r, new
  <2> QED
    BY <2>2, <2>3, <2>5, <2>6, <2>7, TypeStatement DEF Labels
<1> QED
  BY <1>3, <1>4, <1>5, <1>6, <1>7, <1>8, <1>9, <1>10, <1>11, <1>12, <1>13 DEF Step

LEMMA TypeCrash ==
    ASSUME TInv, NEW c \in Conns, Crash(c)
    PROVE  TInv'
<1>1. NoJob \in Job /\ Placing("idle", NoJob.op)
  BY NoRowsType, RowsAreUpdates DEF NoJob, Job, Placing
<1>2. /\ job' \in [Conns -> Job] /\ job'[c] = NoJob
      /\ \A d \in Conns \ {c} : job'[d] = job[d]
      /\ pin' \in [Conns -> {"none", "current", "stale"}]
  BY <1>1 DEF Crash, TInv, TypeOK
<1>3. writer' # c /\ (writer' = writer \/ writer' = NoOne) /\ work' \in Tables
  BY NoOneAssumption DEF Crash, TInv, TypeOK
<1> QED
  BY <1>1, <1>2, <1>3, Moved DEF Crash, Goto, Labels, TInv, TypeOK

LEMMA TypeInvariant == Spec => []TInv
<1>1. Init => TInv
  BY TypeInit
<1>2. TInv /\ [Next]_vars => TInv'
  <2> SUFFICES ASSUME TInv, [Next]_vars PROVE TInv'
    OBVIOUS
  <2>1. CASE UNCHANGED vars
    BY <2>1 DEF vars, TInv, TypeOK, Placed
  <2>2. CASE Next
    BY <2>2, TypeCall, TypeStep, TypeCrash DEF Next
  <2> QED
    BY <2>1, <2>2
<1> QED
  BY <1>1, <1>2, PTL DEF Spec

\* Every state has its shape, and a write transaction is open only inside a
\* call that opened it: no early return of he_services.c leaves it open.
THEOREM WriteTxTypeCorrect == Spec => []TypeOK
<1>1. TInv => TypeOK
  BY DEF TInv
<1> QED
  BY <1>1, TypeInvariant, PTL

-----------------------------------------------------------------------------
\* A table that a reader may see: whole, and its hash, if it counts, is right.
Consistent(t) ==
    /\ t.root # 0 => t.rows = t.promised
    /\ t.root = 0 => t.rows = NoRows
    /\ (t.root # 0 /\ t.hash.rev = t.root) => t.rows = t.hash.text

\* Connections past BEGIN, but for an update with null, which has none.
InTx(c) == \/ pc[c] \in {"ensure", "root", "rows", "hash", "commit"}
           \/ pc[c] \in {"delete", "clear"} /\ job[c].op # "erase"

\* The entry e of the table t is what the table promises.
Kept(t, e) == /\ e \in DOMAIN t.rows <=> e \in DOMAIN t.promised
              /\ e \in DOMAIN t.rows => t.rows[e] = t.promised[e]

\* The call j will write to the entry e what the table t promises.
Pending(t, j, e) == /\ e \in DOMAIN j.goal <=> e \in DOMAIN t.promised
                    /\ e \in DOMAIN j.goal => j.goal[e] = t.promised[e]

\* How far the writer c has come.
Progress(c) ==
    /\ pc[c] \in {"delete", "clear", "ensure", "root", "commit"} => Consistent(work)
    /\ pc[c] \in {"ensure", "root"} /\ job[c].op \in {"set", "full"} => work.root = 0
    /\ pc[c] \in {"rows", "hash"} => work.root = job[c].rev
    /\ pc[c] = "rows" => \A e \in Entries : IF e \in job[c].todo THEN Pending(work, job[c], e)
                                            ELSE Kept(work, e)
    /\ pc[c] = "hash" => work.rows = work.promised
    /\ pc[c] \in {"rows", "hash"} /\ job[c].op \in {"set", "full"} => work.promised = job[c].goal

\* A call that set or merged has all of its rows to write until it begins.
Ready(c) ==
    /\ (pc[c] \in {"begin", "delete", "ensure", "root"} /\ job[c].op \in {"set", "full"})
          => job[c].todo = DOMAIN job[c].goal
    /\ job[c].op = "leaf" => job[c].goal = Merged(NoRows, job[c].arg)

\* Revisions are fresh: no hash has that of a call which has yet to record its own.
Before(c) == pc[c] \in {"begin", "delete", "clear", "ensure", "root", "rows", "hash"}

FreshRevisions ==
    /\ db.hash.rev <= clock /\ work.hash.rev <= clock
    /\ \A c \in Conns : pc[c] # "idle" => 0 < job[c].rev /\ job[c].rev <= clock
    /\ \A c, d \in Conns : (pc[c] # "idle" /\ pc[d] # "idle" /\ c # d) => job[c].rev # job[d].rev
    /\ \A c \in Conns : Before(c) => /\ db.hash.rev # job[c].rev
                                     /\ work.hash.rev # job[c].rev

Good == /\ Consistent(db)
        /\ writer = NoOne => work = db
        /\ \A c \in Conns : InTx(c) => writer = c
        /\ \A c \in Conns : writer = c => InTx(c) /\ Progress(c)
        /\ \A c \in Conns : Ready(c)
        /\ FreshRevisions

\* The inductive invariant: while no BEGIN was refused, all of this holds.
WInv == TInv /\ (~exposed => Good)

-----------------------------------------------------------------------------
(* Whole documents *)

LEMMA GoodInit == Init => Good
<1> SUFFICES ASSUME Init PROVE Good
  OBVIOUS
<1>1. \A c \in Conns : writer # c /\ ~InTx(c) /\ ~Before(c) /\ pc[c] = "idle"
  BY NoOneAssumption DEF Init, InTx, Before
<1>2. Consistent(db) /\ work = db
  BY DEF Init, Consistent
<1>3. \A c \in Conns : Ready(c)
  BY DEF Init, Ready, NoJob
<1>4. FreshRevisions
  BY <1>1 DEF Init, FreshRevisions
<1> QED
  BY <1>1, <1>2, <1>3, <1>4 DEF Good

\* Revisions stay fresh in a step of c that draws one or keeps its own, and that
\* leaves in a table a hash that was there, none, or its own on its way to COMMIT.
LEMMA FreshMoved ==
    ASSUME TInv, TInv', FreshRevisions, NEW c \in Conns,
           \A d \in Conns \ {c} : pc'[d] = pc[d] /\ job'[d] = job[d],
           \/ clock' = clock /\ pc'[c] = "idle"
           \/ clock' = clock /\ pc[c] # "idle" /\ job'[c].rev = job[c].rev
           \/ clock' = clock + 1 /\ job'[c].rev = clock + 1,
           pc[c] # "idle" /\ Before(c)' => Before(c),
           \A h \in {db'.hash.rev, work'.hash.rev} :
              \/ h \in {0, db.hash.rev, work.hash.rev}
              \/ pc[c] = "hash" /\ ~Before(c)' /\ h = job[c].rev
    PROVE  FreshRevisions'
<1> DEFINE h1 == db.hash.rev
           h2 == work.hash.rev
           k1 == db'.hash.rev
           k2 == work'.hash.rev
<1>1. clock \in Nat /\ clock' \in Nat /\ h1 \in Nat /\ h2 \in Nat /\ k1 \in Nat /\ k2 \in Nat
  BY MaxCallsAssumption DEF TInv, TypeOK, Tables
<1>2. \A d \in Conns : job[d].rev \in Nat /\ job'[d].rev \in Nat
  BY DEF TInv, TypeOK, Job
<1>3. /\ h1 <= clock /\ h2 <= clock
      /\ \A d \in Conns : pc[d] # "idle" => 0 < job[d].rev /\ job[d].rev <= clock
      /\ \A d, e \in Conns : (pc[d] # "idle" /\ pc[e] # "idle" /\ d # e) => job[d].rev # job[e].rev
      /\ \A d \in Conns : Before(d) => h1 # job[d].rev /\ h2 # job[d].rev
  BY DEF FreshRevisions
<1>4. \A k \in {k1, k2} : k \in {0, h1, h2} \/ (pc[c] = "hash" /\ ~Before(c)' /\ k = job[c].rev)
  OBVIOUS
<1> HIDE DEF h1, h2, k1, k2
<1>5. k1 <= clock' /\ k2 <= clock'
  BY <1>1, <1>2, <1>3, <1>4
<1>6. \A d \in Conns : pc'[d] # "idle" => 0 < job'[d].rev /\ job'[d].rev <= clock'
  BY <1>1, <1>2, <1>3
<1>7. \A d, e \in Conns :
         (pc'[d] # "idle" /\ pc'[e] # "idle" /\ d # e) => job'[d].rev # job'[e].rev
  BY <1>1, <1>2, <1>3
<1>8. ASSUME NEW d \in Conns, Before(d)' PROVE k1 # job'[d].rev /\ k2 # job'[d].rev
  <2>1. pc'[d] # "idle" /\ 0 < job'[d].rev
    BY <1>6, <1>8 DEF Before
  <2>2. CASE d # c
    <3>1. Before(d) /\ pc[d] # "idle" /\ job'[d].rev = job[d].rev
      BY <1>8, <2>1, <2>2 DEF Before
    <3> QED
      BY <1>1, <1>2, <1>3, <1>4, <2>1, <2>2, <3>1
  <2>3. CASE d = c
    <3>1. k1 \in {0, h1, h2} /\ k2 \in {0, h1, h2}
      BY <1>4, <1>8, <2>3
    <3>2. CASE pc[c] # "idle" /\ job'[c].rev = job[c].rev
      <4>1. Before(c)
        BY <1>8, <2>3, <3>2
      <4> QED
        BY <1>2, <1>3, <2>1, <2>3, <3>1, <3>2, <4>1
    <3>3. CASE clock' = clock + 1 /\ job'[c].rev = clock + 1
      BY <1>1, <1>3, <2>1, <2>3, <3>1, <3>3
    <3> QED
      BY <2>1, <2>3, <3>2, <3>3
  <2> QED
    BY <2>2, <2>3
<1> QED
  BY <1>5, <1>6, <1>7, <1>8 DEF FreshRevisions, k1, k2

\* What is left to show of a step of c.
LEMMA GoodMoved ==
    ASSUME Good, NEW c \in Conns,
           \A d \in Conns \ {c} : /\ pc'[d] = pc[d] /\ job'[d] = job[d]
                                  /\ writer' = d <=> writer = d
                                  /\ writer = d => work' = work,
           Consistent(db'),
           writer' = NoOne => work' = db',
           InTx(c)' => writer' = c,
           writer' = c => InTx(c)' /\ Progress(c)',
           Ready(c)',
           FreshRevisions'
    PROVE  Good'
<1>1. ASSUME NEW d \in Conns, InTx(d)' PROVE writer' = d
  BY <1>1 DEF Good, InTx
<1>2. ASSUME NEW d \in Conns, writer' = d PROVE InTx(d)' /\ Progress(d)'
  <2>1. CASE d = c
    BY <1>2, <2>1
  <2>2. CASE d # c
    <3>1. writer = d /\ work' = work /\ pc'[d] = pc[d] /\ job'[d] = job[d]
      BY <1>2, <2>2
    <3>2. InTx(d) /\ Progress(d)
      BY <3>1 DEF Good
    <3> QED
      BY <3>1, <3>2 DEF InTx, Progress
  <2> QED
    BY <2>1, <2>2
<1>3. ASSUME NEW d \in Conns PROVE Ready(d)'
  BY DEF Good, Ready
<1> QED
  BY <1>1, <1>2, <1>3 DEF Good

\* A call in its transaction works on its own copy.
LEMMA OwnStatement ==
    ASSUME Good, NEW c \in Conns, InTx(c), NEW new, Statement(c, new)
    PROVE  /\ writer = c /\ writer' = c /\ work' = new /\ db' = db /\ clock' = clock
           /\ Seen(c) = work
           /\ Progress(c)
BY DEF Good, Statement, Seen

\* A statement of an update with null commits at once, or is skipped.
LEMMA BareStatement ==
    ASSUME TInv, Good, NEW c \in Conns, job[c].op = "erase", NEW new, Statement(c, new)
    PROVE  /\ writer # c /\ writer' = writer /\ clock' = clock
           /\ Seen(c) = db
           /\ \/ writer = NoOne /\ work = db /\ db' = new /\ work' = new
              \/ db' = db /\ work' = work
BY DEF TInv, Placed, Good, Statement, Seen, CanWrite

LEMMA GoodStart ==
    ASSUME TInv, TInv', Good, NEW c \in Conns, NEW l \in {"begin", "delete"}, NEW o, NEW u, NEW g,
           Placing(l, o),
           o = "leaf" => g = Merged(NoRows, u),
           l = "delete" => o = "erase",
           Start(c, l, o, u, g)
    PROVE  Good'
<1> DEFINE j == [op |-> o, arg |-> u, goal |-> g, todo |-> DOMAIN g, rev |-> clock + 1]
<1>1. /\ pc[c] = "idle" /\ clock' = clock + 1
      /\ job' = [job EXCEPT ![c] = j]
      /\ pc' = [pc EXCEPT ![c] = l]
      /\ UNCHANGED <<db, work, writer>>
  BY DEF Start, Goto
<1>2. job'[c] = j /\ pc'[c] = l /\ \A d \in Conns \ {c} : job'[d] = job[d] /\ pc'[d] = pc[d]
  BY <1>1 DEF TInv, TypeOK
<1>3. writer' # c /\ ~InTx(c)'
  BY <1>1, <1>2 DEF TInv, TypeOK, InTx
<1>4. Ready(c)'
  BY <1>2 DEF Ready
<1>5. FreshRevisions'
  BY <1>1, <1>2, FreshMoved DEF Good
<1> QED
  BY <1>1, <1>2, <1>3, <1>4, <1>5, GoodMoved DEF Good

LEMMA GoodCall ==
    ASSUME TInv, TInv', Good, NEW c \in Conns, Call(c)
    PROVE  Good'
BY GoodStart DEF Call, StartRemove, StartErase, StartSet, StartLeaf, StartFull, Placing

LEMMA GoodDelete ==
    ASSUME TInv, TInv', Good, NEW c \in Conns, Delete(c)
    PROVE  Good'
<1> DEFINE l == IF job[c].op \in {"remove", "erase"} THEN "clear" ELSE "ensure"
           new == [Seen(c) EXCEPT !.root = 0, !.rows = NoRows]
<1>1. pc[c] = "delete" /\ Statement(c, new) /\ pc' = [pc EXCEPT ![c] = l] /\ job' = job
  BY DEF Delete, Goto
<1>2. job[c].op \in {"set", "remove", "full", "erase"}
  BY <1>1 DEF TInv, Placed, Placing
<1>3. /\ pc'[c] = l /\ \A d \in Conns \ {c} : pc'[d] = pc[d] /\ job'[d] = job[d]
      /\ Before(c)
  BY <1>1 DEF TInv, TypeOK, Before
<1>4. Seen(c) \in Tables
  BY SeenType DEF TInv
<1>5. Consistent(new) /\ new.hash = Seen(c).hash /\ new.root = 0
  BY <1>4 DEF Consistent, Tables
<1>6. Ready(c)'
  BY <1>1, <1>2, <1>3 DEF Good, Ready
<1> HIDE DEF new
<1>7. CASE job[c].op # "erase"
  <2>1. InTx(c)
    BY <1>1, <1>7 DEF InTx
  <2>2. writer = c /\ writer' = c /\ work' = new /\ db' = db /\ clock' = clock /\ Seen(c) = work
    BY <1>1, <2>1, OwnStatement
  <2>3. InTx(c)'
    BY <1>1, <1>3, <1>7 DEF InTx
  <2>4. Progress(c)'
    BY <1>1, <1>2, <1>3, <1>5, <2>2 DEF Progress
  <2>5. FreshRevisions'
    BY <1>1, <1>3, <1>5, <2>2, FreshMoved DEF Good
  <2> QED
    BY <1>3, <1>6, <2>2, <2>3, <2>4, <2>5, NoOneAssumption, GoodMoved DEF Good
<1>8. CASE job[c].op = "erase"
  <2>1. /\ writer # c /\ writer' = writer /\ clock' = clock /\ Seen(c) = db
        /\ \/ writer = NoOne /\ work = db /\ db' = new /\ work' = new
           \/ db' = db /\ work' = work
    BY <1>1, <1>8, BareStatement
  <2>2. ~InTx(c)'
    BY <1>1, <1>3, <1>8 DEF InTx
  <2>3. FreshRevisions'
    BY <1>1, <1>3, <1>5, <2>1, FreshMoved DEF Good
  <2>4. Consistent(db')
    BY <1>5, <2>1 DEF Good
  <2> QED
    BY <1>3, <1>6, <2>1, <2>2, <2>3, <2>4, NoOneAssumption, GoodMoved DEF Good
<1> QED
  BY <1>7, <1>8

LEMMA GoodClear ==
    ASSUME TInv, TInv', Good, NEW c \in Conns, Clear(c)
    PROVE  Good'
<1> DEFINE l == AfterClear(c)
           new == [Seen(c) EXCEPT !.hash = [rev |-> 0, text |-> NoRows]]
<1>1. pc[c] = "clear" /\ Statement(c, new) /\ pc' = [pc EXCEPT ![c] = l] /\ job' = job
  BY DEF Clear, Goto
<1>2. job[c].op \in {"remove", "leaf", "erase"}
  BY <1>1 DEF TInv, Placed, Placing
<1>3. /\ pc'[c] = l /\ \A d \in Conns \ {c} : pc'[d] = pc[d] /\ job'[d] = job[d]
      /\ Before(c)
  BY <1>1 DEF TInv, TypeOK, Before
<1>4. Seen(c) \in Tables
  BY SeenType DEF TInv
<1>5. /\ new.hash.rev = 0 /\ new.root = Seen(c).root
      /\ Consistent(Seen(c)) => Consistent(new)
  BY <1>4 DEF Consistent, Tables
<1>6. Ready(c)'
  BY <1>1, <1>2, <1>3 DEF Good, Ready, AfterClear
<1> HIDE DEF new
<1>7. CASE job[c].op # "erase"
  <2>1. InTx(c)
    BY <1>1, <1>7 DEF InTx
  <2>2. /\ writer = c /\ writer' = c /\ work' = new /\ db' = db /\ clock' = clock
        /\ Seen(c) = work /\ Progress(c)
    BY <1>1, <2>1, OwnStatement
  <2>3. l \in {"ensure", "commit"} /\ (l = "ensure" => job[c].op = "leaf")
    BY <1>2, <1>7 DEF AfterClear
  <2>4. InTx(c)'
    BY <1>3, <2>3 DEF InTx
  <2>5. Progress(c)'
    BY <1>1, <1>3, <1>5, <2>2, <2>3 DEF Progress
  <2>6. FreshRevisions'
    BY <1>1, <1>3, <1>5, <2>2, FreshMoved DEF Good
  <2> QED
    BY <1>3, <1>6, <2>2, <2>4, <2>5, <2>6, NoOneAssumption, GoodMoved DEF Good
<1>8. CASE job[c].op = "erase"
  <2>1. /\ writer # c /\ writer' = writer /\ clock' = clock /\ Seen(c) = db
        /\ \/ writer = NoOne /\ work = db /\ db' = new /\ work' = new
           \/ db' = db /\ work' = work
    BY <1>1, <1>8, BareStatement
  <2>2. ~InTx(c)'
    BY <1>3, <1>8 DEF InTx, AfterClear
  <2>3. FreshRevisions'
    BY <1>1, <1>3, <1>5, <2>1, FreshMoved DEF Good
  <2>4. Consistent(db')
    BY <1>5, <2>1 DEF Good
  <2> QED
    BY <1>3, <1>6, <2>1, <2>2, <2>3, <2>4, NoOneAssumption, GoodMoved DEF Good
<1> QED
  BY <1>7, <1>8

LEMMA GoodBegin ==
    ASSUME TInv, TInv', Good, NEW c \in Conns, BeginDone(c)
    PROVE  Good'
<1>1. /\ pc[c] = "begin" /\ writer = NoOne /\ writer' = c /\ work' = db /\ work = db
      /\ pc' = [pc EXCEPT ![c] = AfterBegin(c)]
      /\ UNCHANGED <<db, clock, job>>
  BY DEF BeginDone, CanWrite, Goto, Good
<1>2. job[c].op \in {"set", "remove", "leaf", "full"}
  BY <1>1 DEF TInv, Placed, Placing
<1>3. /\ pc'[c] = AfterBegin(c) /\ pc'[c] \in {"clear", "delete"} /\ Before(c)
      /\ \A d \in Conns \ {c} : pc'[d] = pc[d] /\ job'[d] = job[d]
  BY <1>1 DEF TInv, TypeOK, AfterBegin, Before
<1>4. InTx(c)' /\ Progress(c)'
  BY <1>1, <1>2, <1>3 DEF Good, InTx, Progress
<1>5. Ready(c)'
  BY <1>1, <1>3 DEF Good, Ready
<1>6. FreshRevisions'
  BY <1>1, <1>3, FreshMoved DEF Good
<1> QED
  BY <1>1, <1>3, <1>4, <1>5, <1>6, NoOneAssumption, GoodMoved DEF Good

LEMMA GoodEnsure ==
    ASSUME TInv, TInv', Good, NEW c \in Conns, Ensure(c)
    PROVE  Good'
<1>1. /\ pc[c] = "ensure" /\ pc' = [pc EXCEPT ![c] = "root"]
      /\ UNCHANGED <<db, work, writer, clock, job>>
  BY DEF Ensure, Goto
<1>2. /\ pc'[c] = "root" /\ Before(c)
      /\ \A d \in Conns \ {c} : pc'[d] = pc[d] /\ job'[d] = job[d]
  BY <1>1 DEF TInv, TypeOK, Before
<1>3. writer = c /\ InTx(c)' /\ Progress(c)'
  BY <1>1, <1>2 DEF Good, InTx, Progress
<1>4. Ready(c)'
  BY <1>1, <1>2 DEF Good, Ready
<1>5. FreshRevisions'
  BY <1>1, <1>2, FreshMoved DEF Good
<1> QED
  BY <1>1, <1>2, <1>3, <1>4, <1>5, NoOneAssumption, GoodMoved DEF Good

\* The root row promises what the rows yet to write, and those there are, amount to.
LEMMA GoodRoot ==
    ASSUME TInv, TInv', Good, NEW c \in Conns, Root(c)
    PROVE  Good'
<1> DEFINE p == IF job[c].op = "leaf" THEN Merged(Seen(c).rows, job[c].arg) ELSE job[c].goal
           new == [Seen(c) EXCEPT !.root = job[c].rev, !.promised = p]
           t == IF job[c].op = "leaf" THEN DOMAIN job[c].arg ELSE job[c].todo
           j == [job[c] EXCEPT !.todo = t]
<1>1. /\ pc[c] = "root" /\ Statement(c, new) /\ pc' = [pc EXCEPT ![c] = "rows"]
      /\ job' = [job EXCEPT ![c].todo = t]
  BY DEF Root, Goto, TInv, TypeOK, Job
<1>2. job[c].op \in {"set", "leaf", "full"} /\ job[c] \in Job
  BY <1>1 DEF TInv, TypeOK, Placed, Placing
<1>3. /\ pc'[c] = "rows" /\ job'[c] = j /\ Before(c) /\ InTx(c) /\ InTx(c)'
      /\ \A d \in Conns \ {c} : pc'[d] = pc[d] /\ job'[d] = job[d]
  BY <1>1 DEF TInv, TypeOK, Before, InTx
<1>4. /\ j.op = job[c].op /\ j.goal = job[c].goal /\ j.arg = job[c].arg
      /\ j.todo = t /\ j.rev = job[c].rev
  BY <1>2 DEF Job
<1>5. /\ writer = c /\ writer' = c /\ work' = new /\ db' = db /\ clock' = clock
      /\ Seen(c) = work /\ Progress(c)
  BY <1>1, <1>3, OwnStatement
<1>6. /\ work'.root = job[c].rev /\ work'.promised = p /\ work'.rows = work.rows
      /\ work'.hash = work.hash
  BY <1>5 DEF TInv, TypeOK, Tables
<1>7. Ready(c)'
  BY <1>3, <1>4 DEF Good, Ready
<1>8. \A e \in Entries : IF e \in t THEN Pending(work', j, e) ELSE Kept(work', e)
  <2>1. CASE job[c].op = "leaf"
    <3>1. p = Merged(work.rows, job[c].arg) /\ t = DOMAIN job[c].arg
      BY <1>5, <2>1
    <3>2. j.goal = Merged(NoRows, job[c].arg)
      BY <1>4, <2>1 DEF Good, Ready
    <3>3. ASSUME NEW e \in Entries, e \in t PROVE Pending(work', j, e)
      <4>1. /\ e \in DOMAIN p <=> job[c].arg[e] # Null
            /\ e \in DOMAIN p => p[e] = job[c].arg[e]
        BY <3>1, <3>3, MergedChar
      <4>2. /\ e \in DOMAIN j.goal <=> job[c].arg[e] # Null
            /\ e \in DOMAIN j.goal => j.goal[e] = job[c].arg[e]
        BY <3>1, <3>2, <3>3, MergedChar
      <4> HIDE DEF p, j
      <4> QED
        BY <1>6, <4>1, <4>2 DEF Pending
    <3>4. ASSUME NEW e \in Entries, e \notin t PROVE Kept(work', e)
      <4>1. /\ e \in DOMAIN p <=> e \in DOMAIN work.rows
            /\ e \in DOMAIN p => p[e] = work.rows[e]
        BY <3>1, <3>4, MergedChar
      <4> HIDE DEF p
      <4> QED
        BY <1>6, <4>1 DEF Kept
    <3> QED
      BY <3>3, <3>4
  <2>2. CASE job[c].op \in {"set", "full"}
    <3>1. p = job[c].goal /\ t = DOMAIN job[c].goal
      BY <1>1, <2>2 DEF Good, Ready
    <3>2. DOMAIN work.rows = {}
      BY <1>1, <1>5, <2>2, NoRowsType DEF Progress, Consistent
    <3> HIDE DEF p, t, j
    <3> QED
      BY <1>4, <1>6, <3>1, <3>2 DEF Pending, Kept
  <2> QED
    BY <1>2, <2>1, <2>2
<1>9. Progress(c)'
  <2>1. job[c].op \in {"set", "full"} => p = job[c].goal
    OBVIOUS
  <2> HIDE DEF p, t, j
  <2> QED
    BY <1>3, <1>4, <1>6, <1>8, <2>1 DEF Progress
<1>10. FreshRevisions'
  <2> HIDE DEF p, t, j
  <2> QED
    BY <1>1, <1>3, <1>4, <1>5, <1>6, FreshMoved DEF Good
<1> HIDE DEF p, t, j
<1> QED
  BY <1>3, <1>5, <1>7, <1>9, <1>10, NoOneAssumption, GoodMoved DEF Good

LEMMA GoodRow ==
    ASSUME TInv, TInv', Good, NEW c \in Conns, NEW e \in Entries, Row(c, e)
    PROVE  Good'
<1> DEFINE r == IF e \in DOMAIN job[c].goal THEN Put(Seen(c).rows, e, job[c].goal[e])
                ELSE Without(Seen(c).rows, e)
           new == [Seen(c) EXCEPT !.rows = r]
           j == [job[c] EXCEPT !.todo = job[c].todo \ {e}]
<1>1. /\ pc[c] = "rows" /\ e \in job[c].todo /\ pc' = pc
      /\ job' = [job EXCEPT ![c].todo = job[c].todo \ {e}]
  BY DEF Row, TInv, TypeOK, Job
<1>2. Statement(c, new)
  BY SeenType DEF Row, TInv, Tables
<1>3. job[c].op \in {"set", "leaf", "full"} /\ job[c] \in Job
  BY <1>1 DEF TInv, TypeOK, Placed, Placing
<1>4. /\ pc'[c] = "rows" /\ job'[c] = j /\ Before(c) /\ InTx(c) /\ InTx(c)'
      /\ \A d \in Conns \ {c} : pc'[d] = pc[d] /\ job'[d] = job[d]
  BY <1>1 DEF TInv, TypeOK, Before, InTx
<1>5. /\ j.op = job[c].op /\ j.goal = job[c].goal /\ j.arg = job[c].arg
      /\ j.todo = job[c].todo \ {e} /\ j.rev = job[c].rev
  BY <1>3 DEF Job
<1>6. /\ writer = c /\ writer' = c /\ work' = new /\ db' = db /\ clock' = clock
      /\ Seen(c) = work /\ Progress(c)
  BY <1>2, <1>4, OwnStatement
<1>7. /\ work'.root = work.root /\ work'.promised = work.promised /\ work'.rows = r
      /\ work'.hash = work.hash
  BY <1>6 DEF TInv, TypeOK, Tables
<1>8. Ready(c)'
  BY <1>4, <1>5 DEF Good, Ready
<1>9. \A x \in Entries : IF x \in job[c].todo THEN Pending(work, job[c], x) ELSE Kept(work, x)
  BY <1>1, <1>6 DEF Progress
<1>10. \A x \in Entries \ {e} : /\ x \in DOMAIN r <=> x \in DOMAIN work.rows
                                /\ x \in DOMAIN r => r[x] = work.rows[x]
  BY <1>6 DEF Put, Without
<1>11. /\ e \in DOMAIN r <=> e \in DOMAIN job[c].goal
       /\ e \in DOMAIN r => r[e] = job[c].goal[e]
  BY <1>6 DEF Put, Without
<1> HIDE DEF r, j
<1>12. \A x \in Entries : IF x \in j.todo THEN Pending(work', j, x) ELSE Kept(work', x)
  <2>1. ASSUME NEW x \in Entries, x \in j.todo PROVE Pending(work', j, x)
    BY <1>5, <1>7, <1>9, <2>1 DEF Pending
  <2>2. ASSUME NEW x \in Entries, x \notin j.todo PROVE Kept(work', x)
    <3>1. CASE x = e
      <4>1. Pending(work, job[c], e)
        BY <1>1, <1>9
      <4> QED
        BY <1>7, <1>11, <3>1, <4>1 DEF Pending, Kept
    <3>2. CASE x # e
      <4>1. Kept(work, x)
        BY <1>5, <1>9, <2>2, <3>2
      <4> QED
        BY <1>7, <1>10, <3>2, <4>1 DEF Kept
    <3> QED
      BY <3>1, <3>2
  <2> QED
    BY <2>1, <2>2
<1>13. Progress(c)'
  BY <1>1, <1>4, <1>5, <1>6, <1>7, <1>12 DEF Progress
<1>14. FreshRevisions'
  BY <1>1, <1>4, <1>5, <1>6, <1>7, FreshMoved DEF Good
<1> QED
  BY <1>4, <1>6, <1>8, <1>13, <1>14, NoOneAssumption, GoodMoved DEF Good

LEMMA GoodRowsDone ==
    ASSUME TInv, TInv', Good, NEW c \in Conns, RowsDone(c)
    PROVE  Good'
<1> DEFINE l == IF job[c].op = "leaf" THEN "commit" ELSE "hash"
<1>1. /\ pc[c] = "rows" /\ job[c].todo = {} /\ pc' = [pc EXCEPT ![c] = l]
      /\ UNCHANGED <<db, work, writer, clock, job>>
  BY DEF RowsDone, Goto
<1>2. job[c].op \in {"set", "leaf", "full"} /\ job[c].rev \in Nat
  BY <1>1 DEF TInv, TypeOK, Placed, Placing, Job
<1>3. /\ pc'[c] = l /\ Before(c) /\ InTx(c) /\ InTx(c)'
      /\ \A d \in Conns \ {c} : pc'[d] = pc[d] /\ job'[d] = job[d]
  BY <1>1 DEF TInv, TypeOK, Before, InTx
<1>4. writer = c /\ Progress(c)
  BY <1>3 DEF Good
<1>5. work.rows = work.promised
  <2>1. \A e \in Entries : Kept(work, e)
    BY <1>1, <1>4 DEF Progress
  <2> QED
    BY <2>1, RowsEqual DEF Kept, TInv, TypeOK, Tables
<1>6. work.root = job[c].rev /\ work.root # 0 /\ work.hash.rev # work.root
  BY <1>1, <1>2, <1>3, <1>4 DEF Progress, Good, FreshRevisions
<1>7. Consistent(work)
  BY <1>5, <1>6 DEF Consistent
<1>8. Progress(c)'
  BY <1>1, <1>2, <1>3, <1>4, <1>5, <1>6, <1>7 DEF Progress
<1>9. Ready(c)'
  BY <1>1, <1>3 DEF Good, Ready
<1>10. FreshRevisions'
  BY <1>1, <1>3, FreshMoved DEF Good
<1> QED
  BY <1>1, <1>3, <1>4, <1>8, <1>9, <1>10, NoOneAssumption, GoodMoved DEF Good

LEMMA GoodHash ==
    ASSUME TInv, TInv', Good, NEW c \in Conns, Hash(c)
    PROVE  Good'
<1> DEFINE new == [Seen(c) EXCEPT !.hash = [rev |-> job[c].rev, text |-> Hashed(c)]]
<1>1. pc[c] = "hash" /\ Statement(c, new) /\ pc' = [pc EXCEPT ![c] = "commit"] /\ job' = job
  BY DEF Hash, Goto
<1>2. job[c].op \in {"set", "full"}
  BY <1>1 DEF TInv, Placed, Placing
<1>3. /\ pc'[c] = "commit" /\ ~Before(c)' /\ InTx(c) /\ InTx(c)'
      /\ \A d \in Conns \ {c} : pc'[d] = pc[d] /\ job'[d] = job[d]
  BY <1>1 DEF TInv, TypeOK, Before, InTx
<1>4. /\ writer = c /\ writer' = c /\ work' = new /\ db' = db /\ clock' = clock
      /\ Seen(c) = work /\ Progress(c)
  BY <1>1, <1>3, OwnStatement
<1>5. /\ work'.root = work.root /\ work'.promised = work.promised /\ work'.rows = work.rows
      /\ work'.hash = [rev |-> job[c].rev, text |-> job[c].goal]
  BY <1>4 DEF TInv, TypeOK, Tables, Hashed
<1>6. /\ work.root = job[c].rev /\ work.rows = work.promised /\ work.promised = job[c].goal
      /\ job[c].rev # 0
  BY <1>1, <1>2, <1>4 DEF Progress, Good, FreshRevisions, TInv, TypeOK, Job
<1>7. Consistent(work')
  BY <1>5, <1>6 DEF Consistent
<1>8. Progress(c)'
  BY <1>3, <1>7 DEF Progress
<1>9. Ready(c)'
  BY <1>1, <1>3 DEF Good, Ready
<1>10. FreshRevisions'
  BY <1>1, <1>3, <1>4, <1>5, FreshMoved DEF Good
<1> HIDE DEF new
<1> QED
  BY <1>3, <1>4, <1>8, <1>9, <1>10, NoOneAssumption, GoodMoved DEF Good

LEMMA GoodCommit ==
    ASSUME TInv, TInv', Good, NEW c \in Conns, Commit(c)
    PROVE  Good'
<1>1. pc[c] = "commit" /\ InTx(c) /\ writer = c /\ Progress(c)
  BY DEF Commit, Good, InTx
<1>2. /\ pc' = [pc EXCEPT ![c] = "end"] /\ db' = work /\ work' = work /\ writer' = NoOne
      /\ UNCHANGED <<clock, job>>
  BY <1>1 DEF Commit, Goto
<1>3. /\ pc'[c] = "end" /\ ~Before(c)' /\ ~InTx(c)' /\ Consistent(work)
      /\ \A d \in Conns \ {c} : pc'[d] = pc[d] /\ job'[d] = job[d]
  BY <1>1, <1>2 DEF TInv, TypeOK, Before, InTx, Progress
<1>4. Ready(c)'
  BY <1>2, <1>3 DEF Good, Ready
<1>5. FreshRevisions'
  BY <1>1, <1>2, <1>3, FreshMoved DEF Good
<1> QED
  BY <1>1, <1>2, <1>3, <1>4, <1>5, NoOneAssumption, GoodMoved

\* A call that returns or dies: what was not committed is gone.
LEMMA GoodGone ==
    ASSUME TInv, TInv', Good, NEW c \in Conns, Return(c) \/ Crash(c)
    PROVE  Good'
<1>1. /\ pc' = [pc EXCEPT ![c] = "idle"] /\ job' = [job EXCEPT ![c] = NoJob]
      /\ UNCHANGED <<db, clock>>
      /\ IF writer = c THEN writer' = NoOne /\ work' = db ELSE UNCHANGED <<writer, work>>
  BY DEF Return, Crash, Goto, TInv, TypeOK
<1>2. /\ pc'[c] = "idle" /\ job'[c] = NoJob /\ ~Before(c)' /\ ~InTx(c)'
      /\ \A d \in Conns \ {c} : pc'[d] = pc[d] /\ job'[d] = job[d]
  BY <1>1 DEF TInv, TypeOK, Before, InTx
<1>3. Ready(c)'
  BY <1>2 DEF Ready, NoJob
<1>4. FreshRevisions'
  BY <1>1, <1>2, FreshMoved DEF Good
<1> QED
  BY <1>1, <1>2, <1>3, <1>4, NoOneAssumption, GoodMoved DEF Good

-----------------------------------------------------------------------------
(* The theorems *)

LEMMA GoodNext ==
    ASSUME TInv, TInv', Good, ~exposed', Next
    PROVE  Good'
<1> PICK c \in Conns : Call(c) \/ Step(c) \/ Crash(c)
  BY DEF Next
<1>1. ~BeginRefused(c)
  BY DEF BeginRefused
<1> QED
  BY <1>1, GoodCall, GoodBegin, GoodDelete, GoodClear, GoodEnsure, GoodRoot, GoodRowsDone,
     GoodHash, GoodCommit, GoodGone, GoodRow DEF Step

LEMMA Invariant == Spec => []WInv
<1>1. Init => WInv
  BY TypeInit, GoodInit DEF WInv
<1>2. TInv' /\ WInv /\ [Next]_vars => WInv'
  <2> SUFFICES ASSUME TInv', WInv, [Next]_vars, ~exposed' PROVE Good'
    BY DEF WInv
  <2>1. CASE UNCHANGED vars
    BY <2>1 DEF vars, WInv, Good, Consistent, InTx, Progress, Pending, Kept, Ready,
                FreshRevisions, Before
  <2>2. CASE Next
    <3>1. ~exposed
      BY <2>2 DEF Next, Call, Step, Crash, StartRemove, StartErase, StartSet, StartLeaf,
                  StartFull, Start, BeginDone, BeginRefused, Delete, Clear, Ensure, Root,
                  RowsDone, Hash, Commit, Return, Row, Statement
    <3> QED
      BY <2>2, <3>1, GoodNext DEF WInv
  <2> QED
    BY <2>1, <2>2
<1> QED
  BY <1>1, <1>2, TypeInvariant, PTL DEF Spec

\* For any connections, entries, texts and updates, and however many calls: as
\* long as no BEGIN was refused, a reader finds all the rows of the call that
\* wrote the root row, or none, through every interleaving and crash.
THEOREM ReadersSeeWhole == Spec => []WholeUnlessExposed
<1>1. WInv => WholeUnlessExposed
  BY DEF WInv, Good, Consistent, WholeUnlessExposed, Whole
<1> QED
  BY <1>1, Invariant, PTL

\* Likewise a hash that a later set would trust is the hash of what is stored.
THEOREM HashIsOfWhatIsStored == Spec => []HashUnlessExposed
<1>1. WInv => HashUnlessExposed
  BY DEF WInv, Good, Consistent, HashUnlessExposed, Armed
<1> QED
  BY <1>1, Invariant, PTL

-----------------------------------------------------------------------------
(***************************************************************************)
(* Updates keep the entries they do not name, also when a BEGIN somewhere  *)
(* was refused: only who holds the lock is spoken of.                      *)
(***************************************************************************)

\* The rows r and s differ at most at entries that u names.
Alike(r, s, u) ==
    \A e \in Entries \ DOMAIN u : /\ e \in DOMAIN r <=> e \in DOMAIN s
                                  /\ e \in DOMAIN r => r[e] = s[e]

\* What a full update merged is still what is stored, or it was overtaken.
ReadOf(c) == (job[c].op = "full" /\ c \notin overtaken /\ (pc[c] = "begin" \/ writer = c))
                => Alike(job[c].goal, db.rows, job[c].arg)

\* The copy of the writer c holds no entry that its call does not mean to leave.
CopyOf(c) ==
    writer = c =>
       /\ (job[c].op = "full" /\ pc[c] \in {"ensure", "root"}) => work.rows = NoRows
       /\ (job[c].op = "full" /\ pc[c] = "rows") =>
             \A e \in Entries :
                /\ e \in DOMAIN work.rows => /\ e \in DOMAIN job[c].goal
                                             /\ work.rows[e] = job[c].goal[e]
                /\ e \in DOMAIN job[c].goal => e \in job[c].todo \/ e \in DOMAIN work.rows
       /\ (job[c].op = "full" /\ pc[c] \in {"hash", "commit"}) => work.rows = job[c].goal
       /\ job[c].op = "leaf" => Alike(work.rows, db.rows, job[c].arg)

\* The rows that are left to write.
LeftOf(c) ==
    /\ (job[c].op = "full" /\ pc[c] \in {"begin", "delete", "ensure", "root"})
          => job[c].todo = DOMAIN job[c].goal
    /\ (job[c].op = "leaf" /\ pc[c] = "rows") => job[c].todo \subseteq DOMAIN job[c].arg

Keeps(c) == ReadOf(c) /\ CopyOf(c) /\ LeftOf(c)

KInv == TInv /\ \A c \in Conns : Keeps(c)

LEMMA OthersEqual ==
    ASSUME NEW r \in Rows, NEW s \in Rows, NEW u, Alike(r, s, u)
    PROVE  Others(r, u) = Others(s, u)
<1>1. DOMAIN r \subseteq Entries /\ DOMAIN s \subseteq Entries
  BY RowsHas
<1>2. /\ DOMAIN r \ DOMAIN u = DOMAIN s \ DOMAIN u
      /\ \A e \in DOMAIN r \ DOMAIN u : r[e] = s[e]
  BY <1>1 DEF Alike
<1> QED
  BY <1>2 DEF Others

LEMMA KeepsInit == Init => KInv
<1> SUFFICES ASSUME Init PROVE KInv
  OBVIOUS
<1>1. TInv
  BY TypeInit
<1>2. \A c \in Conns : job[c].op = "none"
  BY DEF Init, NoJob
<1>3. \A c \in Conns : Keeps(c)
  BY <1>2 DEF Keeps, ReadOf, CopyOf, LeftOf
<1> QED
  BY <1>1, <1>3 DEF KInv

\* What is left to show of a step of c.
LEMMA KeepsMoved ==
    ASSUME KInv, TInv', NEW c \in Conns,
           \A d \in Conns \ {c} : /\ pc'[d] = pc[d] /\ job'[d] = job[d]
                                  /\ writer' = d => writer = d
                                  /\ writer = d => work' = work /\ db' = db
                                  /\ d \in overtaken => d \in overtaken'
                                  /\ db' = db \/ (job[d].op = "full" => d \in overtaken'),
           Keeps(c)'
    PROVE  KInv'
<1>1. ASSUME NEW d \in Conns \ {c} PROVE Keeps(d)'
  <2>1. ReadOf(d) /\ CopyOf(d) /\ LeftOf(d)
    BY DEF KInv, Keeps
  <2>2. ReadOf(d)'
    BY <2>1 DEF ReadOf
  <2>3. CopyOf(d)'
    BY <2>1 DEF CopyOf
  <2>4. LeftOf(d)'
    BY <2>1 DEF LeftOf
  <2> QED
    BY <2>2, <2>3, <2>4 DEF Keeps
<1> QED
  BY <1>1 DEF KInv

\* A statement of c past its BEGIN: if c is the writer it changes the copy, and if
\* it commits at once it overtakes whoever has read.
LEMMA KeepsStatement ==
    ASSUME KInv, TInv', NEW c \in Conns, NEW new, Statement(c, new),
           pc'[c] # "begin",
           \A d \in Conns \ {c} : pc'[d] = pc[d] /\ job'[d] = job[d],
           job'[c].op = job[c].op, job'[c].goal = job[c].goal, job'[c].arg = job[c].arg,
           (writer = c /\ writer' = c /\ work' = new /\ db' = db /\ Seen(c) = work /\ CopyOf(c))
              => CopyOf(c)',
           LeftOf(c)'
    PROVE  KInv'
<1>1. ReadOf(c) /\ CopyOf(c)
  BY DEF KInv, Keeps
<1>2. CASE writer = c
  <2>1. writer' = c /\ work' = new /\ db' = db /\ overtaken' = overtaken /\ Seen(c) = work
    BY <1>2 DEF Statement, Seen
  <2>2. ReadOf(c)'
    BY <1>1, <1>2, <2>1 DEF ReadOf
  <2>3. Keeps(c)'
    BY <1>1, <1>2, <2>1, <2>2 DEF Keeps
  <2> QED
    BY <1>2, <2>1, <2>3, KeepsMoved
<1>3. CASE writer # c
  <2>1. /\ writer' = writer
        /\ \/ writer = NoOne /\ overtaken' = overtaken \cup {d \in Conns \ {c} : job[d].op = "full"}
           \/ db' = db /\ work' = work /\ overtaken' = overtaken
    BY <1>3 DEF Statement, CanWrite, Overtake
  <2>2. Keeps(c)'
    BY <1>3, <2>1 DEF Keeps, ReadOf, CopyOf
  <2> QED
    BY <2>1, <2>2, NoOneAssumption, KeepsMoved
<1> QED
  BY <1>2, <1>3

LEMMA KeepsCall ==
    ASSUME KInv, TInv', NEW c \in Conns, Call(c)
    PROVE  KInv'
<1>1. /\ job \in [Conns -> Job] /\ pc \in [Conns -> Labels] /\ db.rows \in Rows
      /\ writer = c => pc[c] # "idle"
  BY DEF KInv, TInv, TypeOK, Labels, Tables
<1>2. /\ pc[c] = "idle" /\ UNCHANGED <<db, work, writer, overtaken>>
      /\ \A d \in Conns \ {c} : pc'[d] = pc[d] /\ job'[d] = job[d]
      /\ job'[c].todo = DOMAIN job'[c].goal /\ pc'[c] \in {"begin", "delete"}
  BY <1>1 DEF Call, StartRemove, StartErase, StartSet, StartLeaf, StartFull, Start, Goto
<1>3. writer' # c
  BY <1>1, <1>2
<1>4. job'[c].op = "full" => job'[c].goal = Merged(db.rows, job'[c].arg)
  BY <1>1 DEF Call, StartRemove, StartErase, StartSet, StartLeaf, StartFull, Start, Goto
<1>5. ReadOf(c)'
  <2> SUFFICES ASSUME job'[c].op = "full"
               PROVE  Alike(job'[c].goal, db.rows, job'[c].arg)
    BY <1>2 DEF ReadOf
  <2>1. PICK u : u = job'[c].arg
    OBVIOUS
  <2>2. Alike(Merged(db.rows, u), db.rows, u)
    BY MergedChar DEF Alike
  <2> QED
    BY <1>4, <2>1, <2>2
<1>6. CopyOf(c)' /\ LeftOf(c)'
  BY <1>2, <1>3 DEF CopyOf, LeftOf
<1>7. Keeps(c)'
  BY <1>5, <1>6 DEF Keeps
<1> QED
  BY <1>2, <1>7, KeepsMoved

LEMMA KeepsGone ==
    ASSUME KInv, TInv', NEW c \in Conns, Return(c) \/ Crash(c)
    PROVE  KInv'
<1>1. /\ \A d \in Conns \ {c} : pc'[d] = pc[d] /\ job'[d] = job[d]
      /\ job'[c] = NoJob /\ db' = db /\ overtaken' = overtaken \ {c}
      /\ \/ writer' = NoOne /\ writer = c
         \/ writer' = writer /\ work' = work
  BY DEF Return, Crash, Goto, KInv, TInv, TypeOK
<1>2. job'[c].op = "none"
  BY <1>1 DEF NoJob
<1>3. Keeps(c)'
  BY <1>2 DEF Keeps, ReadOf, CopyOf, LeftOf
<1> QED
  BY <1>1, <1>3, NoOneAssumption, KeepsMoved

LEMMA KeepsStep ==
    ASSUME KInv, TInv', NEW c \in Conns, Step(c)
    PROVE  KInv'
<1>1. /\ TInv /\ TypeOK /\ Placed(c) /\ job[c] \in Job
      /\ pc \in [Conns -> Labels] /\ job \in [Conns -> Job]
      /\ db \in Tables /\ work \in Tables /\ Seen(c) \in Tables
      /\ Keeps(c) /\ ReadOf(c) /\ CopyOf(c) /\ LeftOf(c)
  BY SeenType DEF KInv, TInv, TypeOK, Labels, Keeps
<1>2. CASE BeginDone(c)
  <2>1. /\ pc[c] = "begin" /\ pc'[c] = AfterBegin(c) /\ job' = job /\ db' = db /\ work' = db
        /\ writer = NoOne /\ writer' = c /\ overtaken' = overtaken
        /\ \A d \in Conns \ {c} : pc'[d] = pc[d]
    BY <1>1, <1>2 DEF BeginDone, CanWrite, Goto
  <2>2. ReadOf(c)'
    BY <1>1, <2>1 DEF ReadOf
  <2>3. CopyOf(c)' /\ LeftOf(c)'
    BY <1>1, <2>1 DEF CopyOf, LeftOf, Alike, AfterBegin
  <2>4. Keeps(c)'
    BY <2>2, <2>3 DEF Keeps
  <2> QED
    BY <2>1, <2>4, NoOneAssumption, KeepsMoved
<1>3. CASE BeginRefused(c)
  <2>1. /\ pc[c] = "begin" /\ pc'[c] = AfterBegin(c)
        /\ UNCHANGED <<job, db, work, writer, overtaken>>
        /\ \A d \in Conns \ {c} : pc'[d] = pc[d]
    BY <1>1, <1>3 DEF BeginRefused, Goto
  <2>2. writer # c
    BY <1>1, <2>1 DEF TypeOK
  <2>3. Keeps(c)'
    BY <1>1, <2>1, <2>2 DEF Keeps, ReadOf, CopyOf, LeftOf, AfterBegin
  <2> QED
    BY <2>1, <2>3, KeepsMoved
<1>4. CASE Delete(c)
  <2> DEFINE new == [Seen(c) EXCEPT !.root = 0, !.rows = NoRows]
  <2>1. /\ pc[c] = "delete" /\ Statement(c, new) /\ job' = job
        /\ pc'[c] = IF job[c].op \in {"remove", "erase"} THEN "clear" ELSE "ensure"
        /\ \A d \in Conns \ {c} : pc'[d] = pc[d]
    BY <1>1, <1>4 DEF Delete, Goto
  <2>2. new.rows = NoRows /\ job[c].op # "leaf"
    BY <1>1, <2>1 DEF Tables, Placed, Placing
  <2>3. work' = new => CopyOf(c)'
    BY <2>1, <2>2 DEF CopyOf
  <2>4. LeftOf(c)' /\ pc'[c] # "begin"
    BY <1>1, <2>1 DEF LeftOf
  <2> HIDE DEF new
  <2> QED
    BY <2>1, <2>3, <2>4, KeepsStatement
<1>5. CASE Clear(c)
  <2> DEFINE new == [Seen(c) EXCEPT !.hash = [rev |-> 0, text |-> NoRows]]
  <2>1. /\ pc[c] = "clear" /\ Statement(c, new) /\ job' = job /\ pc'[c] = AfterClear(c)
        /\ \A d \in Conns \ {c} : pc'[d] = pc[d]
    BY <1>1, <1>5 DEF Clear, Goto
  <2>2. new.rows = Seen(c).rows /\ job[c].op \in {"remove", "leaf", "erase"}
    BY <1>1, <2>1 DEF Tables, Placed, Placing
  <2>3. (writer = c /\ work' = new /\ db' = db /\ Seen(c) = work /\ CopyOf(c)) => CopyOf(c)'
    BY <2>1, <2>2 DEF CopyOf
  <2>4. LeftOf(c)' /\ pc'[c] # "begin"
    BY <1>1, <2>1, <2>2 DEF LeftOf, AfterClear
  <2> HIDE DEF new
  <2> QED
    BY <2>1, <2>3, <2>4, KeepsStatement
<1>6. CASE Ensure(c)
  <2>1. /\ pc[c] = "ensure" /\ pc'[c] = "root" /\ UNCHANGED <<db, work, writer, job, overtaken>>
        /\ \A d \in Conns \ {c} : pc'[d] = pc[d]
    BY <1>1, <1>6 DEF Ensure, Goto
  <2>2. Keeps(c)'
    BY <1>1, <2>1 DEF Keeps, ReadOf, CopyOf, LeftOf
  <2> QED
    BY <2>1, <2>2, KeepsMoved
<1>7. CASE Root(c)
  <2> DEFINE p == IF job[c].op = "leaf" THEN Merged(Seen(c).rows, job[c].arg) ELSE job[c].goal
             new == [Seen(c) EXCEPT !.root = job[c].rev, !.promised = p]
  <2>1. /\ pc[c] = "root" /\ Statement(c, new) /\ pc'[c] = "rows"
        /\ \A d \in Conns \ {c} : pc'[d] = pc[d]
    BY <1>1, <1>7 DEF Root, Goto
  <2>2. /\ job'[c].op = job[c].op /\ job'[c].goal = job[c].goal /\ job'[c].arg = job[c].arg
        /\ job'[c].todo = IF job[c].op = "leaf" THEN DOMAIN job[c].arg ELSE job[c].todo
        /\ \A d \in Conns \ {c} : job'[d] = job[d]
    BY <1>1, <1>7 DEF Root, Job
  <2>3. new.rows = Seen(c).rows
    BY <1>1 DEF Tables
  <2>4. (writer = c /\ work' = new /\ db' = db /\ Seen(c) = work /\ CopyOf(c)) => CopyOf(c)'
    <3> SUFFICES ASSUME writer = c, work' = new, db' = db, Seen(c) = work
                 PROVE  CopyOf(c)'
      OBVIOUS
    <3>1. work'.rows = work.rows
      BY <2>3
    <3> HIDE DEF new
    <3>2. job[c].op = "full" => work'.rows = NoRows /\ job[c].todo = DOMAIN job[c].goal
      BY <1>1, <2>1, <3>1 DEF CopyOf, LeftOf
    <3>3. job[c].op = "leaf" => Alike(work'.rows, db'.rows, job[c].arg)
      BY <1>1, <3>1 DEF CopyOf
    <3> QED
      BY <2>1, <2>2, <3>2, <3>3, NoRowsType DEF CopyOf
  <2>5. LeftOf(c)' /\ pc'[c] # "begin"
    BY <1>1, <2>1, <2>2 DEF LeftOf
  <2> HIDE DEF new
  <2> QED
    BY <2>1, <2>2, <2>4, <2>5, KeepsStatement
<1>8. CASE RowsDone(c)
  <2>1. /\ pc[c] = "rows" /\ job[c].todo = {} /\ UNCHANGED <<db, work, writer, job, overtaken>>
        /\ pc'[c] = IF job[c].op = "leaf" THEN "commit" ELSE "hash"
        /\ \A d \in Conns \ {c} : pc'[d] = pc[d]
    BY <1>1, <1>8 DEF RowsDone, Goto
  <2>2. (writer = c /\ job[c].op = "full") => work.rows = job[c].goal
    <3> SUFFICES ASSUME writer = c, job[c].op = "full" PROVE work.rows = job[c].goal
      OBVIOUS
    <3>1. work.rows \in Rows /\ job[c].goal \in Rows
      BY <1>1 DEF Tables, Job
    <3>2. \A e \in Entries : /\ e \in DOMAIN work.rows <=> e \in DOMAIN job[c].goal
                             /\ e \in DOMAIN work.rows => work.rows[e] = job[c].goal[e]
      BY <1>1, <2>1 DEF CopyOf
    <3> QED
      BY <3>1, <3>2, RowsEqual
  <2>3. Keeps(c)'
    BY <1>1, <2>1, <2>2 DEF Keeps, ReadOf, CopyOf, LeftOf
  <2> QED
    BY <2>1, <2>3, KeepsMoved
<1>9. CASE Hash(c)
  <2> DEFINE new == [Seen(c) EXCEPT !.hash = [rev |-> job[c].rev, text |-> Hashed(c)]]
  <2>1. /\ pc[c] = "hash" /\ Statement(c, new) /\ job' = job /\ pc'[c] = "commit"
        /\ \A d \in Conns \ {c} : pc'[d] = pc[d]
    BY <1>1, <1>9 DEF Hash, Goto
  <2>2. new.rows = Seen(c).rows
    BY <1>1, <2>1 DEF Tables
  <2>3. (writer = c /\ work' = new /\ db' = db /\ Seen(c) = work /\ CopyOf(c)) => CopyOf(c)'
    BY <2>1, <2>2 DEF CopyOf
  <2>4. LeftOf(c)' /\ pc'[c] # "begin"
    BY <1>1, <2>1 DEF LeftOf
  <2> HIDE DEF new
  <2> QED
    BY <2>1, <2>3, <2>4, KeepsStatement
<1>10. CASE Commit(c)
  <2>1. /\ pc[c] = "commit" /\ pc'[c] = "end" /\ job' = job
        /\ \A d \in Conns \ {c} : pc'[d] = pc[d]
    BY <1>1, <1>10 DEF Commit, Goto
  <2>2. \/ /\ writer = c /\ writer' = NoOne
           /\ overtaken' = overtaken \cup {d \in Conns \ {c} : job[d].op = "full"}
        \/ writer # c /\ UNCHANGED <<db, work, writer, overtaken>>
    BY <1>10 DEF Commit, Overtake
  <2>3. writer' # c
    BY <2>2, NoOneAssumption
  <2>4. Keeps(c)'
    BY <2>1, <2>3 DEF Keeps, ReadOf, CopyOf, LeftOf
  <2> QED
    BY <2>1, <2>2, <2>4, NoOneAssumption, KeepsMoved
<1>11. CASE Return(c)
  BY <1>11, KeepsGone
<1>12. ASSUME NEW e \in Entries, Row(c, e) PROVE KInv'
  <2> DEFINE r == IF e \in DOMAIN job[c].goal THEN Put(Seen(c).rows, e, job[c].goal[e])
                  ELSE Without(Seen(c).rows, e)
             new == [Seen(c) EXCEPT !.rows = r]
  <2>1. /\ pc[c] = "rows" /\ Statement(c, new) /\ pc' = pc /\ e \in job[c].todo
    BY <1>1, <1>12 DEF Row, Tables
  <2>2. /\ job'[c].op = job[c].op /\ job'[c].goal = job[c].goal /\ job'[c].arg = job[c].arg
        /\ job'[c].todo = job[c].todo \ {e}
        /\ \A d \in Conns \ {c} : job'[d] = job[d]
    BY <1>1, <1>12 DEF Row, Job
  <2>3. new.rows = r
    BY <1>1 DEF Tables
  <2>4. /\ \A x : x # e => /\ x \in DOMAIN r <=> x \in DOMAIN Seen(c).rows
                           /\ x \in DOMAIN r => r[x] = Seen(c).rows[x]
        /\ e \in DOMAIN r <=> e \in DOMAIN job[c].goal
        /\ e \in DOMAIN r => r[e] = job[c].goal[e]
    BY DEF Put, Without
  <2> HIDE DEF r
  <2>5. (writer = c /\ work' = new /\ db' = db /\ Seen(c) = work /\ CopyOf(c)) => CopyOf(c)'
    <3> SUFFICES ASSUME writer = c, work' = new, db' = db, Seen(c) = work
                 PROVE  CopyOf(c)'
      OBVIOUS
    <3>1. work'.rows = r
      BY <2>3
    <3> HIDE DEF new
    <3>2. job[c].op = "leaf" => Alike(r, db.rows, job[c].arg)
      BY <1>1, <2>1, <2>4 DEF CopyOf, LeftOf, Alike
    <3>3. job[c].op = "full" =>
             \A x \in Entries :
                /\ x \in DOMAIN r => x \in DOMAIN job[c].goal /\ r[x] = job[c].goal[x]
                /\ x \in DOMAIN job[c].goal => x \in job[c].todo \ {e} \/ x \in DOMAIN r
      BY <1>1, <2>1, <2>4 DEF CopyOf
    <3> QED
      BY <2>1, <2>2, <3>1, <3>2, <3>3 DEF CopyOf
  <2>6. LeftOf(c)' /\ pc'[c] # "begin"
    BY <1>1, <2>1, <2>2 DEF LeftOf
  <2> HIDE DEF new
  <2> QED
    BY <2>1, <2>2, <2>5, <2>6, KeepsStatement
<1> QED
  BY <1>2, <1>3, <1>4, <1>5, <1>6, <1>7, <1>8, <1>9, <1>10, <1>11, <1>12 DEF Step

LEMMA KeepsInvariant == Spec => []KInv
<1>1. KInv /\ TInv' /\ [Next]_vars => KInv'
  <2> SUFFICES ASSUME KInv, TInv', [Next]_vars PROVE KInv'
    OBVIOUS
  <2>1. CASE UNCHANGED vars
    BY <2>1 DEF vars, KInv, Keeps, ReadOf, CopyOf, LeftOf
  <2>2. CASE Next
    BY <2>2, KeepsCall, KeepsStep, KeepsGone DEF Next
  <2> QED
    BY <2>1, <2>2
<1> QED
  BY <1>1, KeepsInit, TypeInvariant, PTL DEF Spec

\* For any connections, entries, values and number of calls, and whether or not a
\* BEGIN was refused: an update that commits its transaction leaves the entries it
\* does not name as they are stored then, unless it was a full update that another
\* connection overtook between its read and its BEGIN.
THEOREM UpdatesKeepOthers == Spec => UpdateKeepsOthers
<1>1. ASSUME KInv, Next, NEW c \in Conns, Finishes(c), writer = c
      PROVE  \/ Others(db'.rows, job[c].arg) = Others(db.rows, job[c].arg)
             \/ c \in overtaken
  <2>1. /\ pc[c] = "commit" /\ pc'[c] = "end" /\ job[c].op \in {"leaf", "full"}
        /\ pc \in [Conns -> Labels] /\ work.rows \in Rows /\ db.rows \in Rows
        /\ ReadOf(c) /\ CopyOf(c)
    BY <1>1 DEF Finishes, KInv, Keeps, TInv, TypeOK, Labels, Tables
  <2>2. db' = work
    <3>1. PICK d \in Conns : Call(d) \/ Step(d) \/ Crash(d)
      BY <1>1 DEF Next
    <3>2. d = c
      BY <2>1, <3>1 DEF Call, StartRemove, StartErase, StartSet, StartLeaf, StartFull, Start,
                        Step, Crash, BeginDone, BeginRefused, Delete, Clear, Ensure, Root,
                        RowsDone, Hash, Commit, Return, Row, Goto
    <3>3. Commit(c)
      BY <2>1, <3>1, <3>2
      DEF Call, StartRemove, StartErase, StartSet, StartLeaf, StartFull, Start,
          Step, Crash, BeginDone, BeginRefused, Delete, Clear, Ensure, Root,
          RowsDone, Hash, Return, Row, Goto
    <3> QED
      BY <1>1, <3>3 DEF Commit
  <2>3. Alike(work.rows, db.rows, job[c].arg) \/ c \in overtaken
    BY <1>1, <2>1 DEF ReadOf, CopyOf
  <2>4. Alike(work.rows, db.rows, job[c].arg)
           => Others(work.rows, job[c].arg) = Others(db.rows, job[c].arg)
    BY <2>1, OthersEqual
  <2> QED
    BY <2>2, <2>3, <2>4
<1>2. KInv /\ [Next]_vars =>
         [\A c \in Conns :
             (Finishes(c) /\ writer = c)
                => \/ Others(db'.rows, job[c].arg) = Others(db.rows, job[c].arg)
                   \/ c \in overtaken]_vars
  BY <1>1
<1> QED
  BY <1>2, KeepsInvariant, PTL DEF Spec, UpdateKeepsOthers

-----------------------------------------------------------------------------
(***************************************************************************)
(* The statement-level writes implement HeAtomic: AInv says what a writer  *)
(* has in its copy on the way to what its call is to leave.                *)
(***************************************************************************)

\* What the writer c has in its copy on the way to what its call is to leave.
Heading(c) ==
    /\ job[c].op \in {"set", "full"} /\ pc[c] = "commit" => work.rows = job[c].goal
    /\ job[c].op = "remove" /\ pc[c] \in {"clear", "commit"} => work.rows = NoRows
    /\ job[c].op = "leaf" =>
         /\ pc[c] \in {"clear", "ensure", "root"} => work.rows = db.rows
         /\ pc[c] = "rows"   => work.promised = Merged(db.rows, job[c].arg)
         /\ pc[c] = "commit" => work.rows = Merged(db.rows, job[c].arg)

\* A set wants the text it was called with.
Named(c) == job[c].op = "set" => job[c].goal = job[c].arg

AInv == /\ WInv
        /\ \A c \in Conns : Named(c)
        /\ ~exposed => \A c \in Conns : writer = c => Heading(c)

(* What holds on the way *)

LEMMA AInit == Init => AInv
<1> SUFFICES ASSUME Init PROVE AInv
  OBVIOUS
<1>1. WInv
  BY TypeInit, GoodInit DEF WInv
<1>2. \A c \in Conns : Named(c) /\ writer # c
  BY NoOneAssumption DEF Init, Named, NoJob
<1> QED
  BY <1>1, <1>2 DEF AInv

\* What is left to show of a step of c.
LEMMA AMoved ==
    ASSUME AInv, WInv', NEW c \in Conns, ~exposed,
           \A d \in Conns \ {c} : /\ pc'[d] = pc[d] /\ job'[d] = job[d]
                                  /\ writer' = d => writer = d
                                  /\ writer = d => work' = work /\ db' = db,
           Named(c)',
           writer' = c => Heading(c)'
    PROVE  AInv'
<1>1. ASSUME NEW d \in Conns PROVE Named(d)'
  BY DEF AInv, Named
<1>2. ASSUME NEW d \in Conns, writer' = d PROVE Heading(d)'
  <2>1. CASE d # c
    <3>1. Heading(d) /\ UNCHANGED <<work, db>> /\ pc'[d] = pc[d] /\ job'[d] = job[d]
      BY <1>2, <2>1 DEF AInv
    <3> QED
      BY <3>1 DEF Heading
  <2> QED
    BY <1>2, <2>1
<1> QED
  BY <1>1, <1>2 DEF AInv

\* A call that starts, or is gone, holds no transaction.
LEMMA ACall ==
    ASSUME AInv, WInv', ~exposed, NEW c \in Conns, Call(c)
    PROVE  AInv'
<1>1. /\ pc[c] = "idle" /\ UNCHANGED <<db, work, writer>>
      /\ \A d \in Conns \ {c} : pc'[d] = pc[d] /\ job'[d] = job[d]
      /\ Named(c)'
  BY DEF Call, StartRemove, StartErase, StartSet, StartLeaf, StartFull, Start, Goto, Named,
         AInv, WInv, TInv, TypeOK
<1>2. writer # c
  BY <1>1 DEF AInv, WInv, TInv, TypeOK
<1> QED
  BY <1>1, <1>2, AMoved

LEMMA AGone ==
    ASSUME AInv, WInv', ~exposed, NEW c \in Conns, Return(c) \/ Crash(c)
    PROVE  AInv'
<1>1. /\ \A d \in Conns \ {c} : pc'[d] = pc[d] /\ job'[d] = job[d]
      /\ job'[c] = NoJob /\ pc'[c] = "idle" /\ db' = db
      /\ IF writer = c THEN writer' = NoOne /\ work' = db ELSE UNCHANGED <<writer, work>>
  BY DEF Return, Crash, Goto, AInv, WInv, TInv, TypeOK
<1>2. Named(c)'
  BY <1>1 DEF Named, NoJob
<1> QED
  BY <1>1, <1>2, NoOneAssumption, AMoved

\* A statement of c: in its transaction it leaves db alone; outside, c has no
\* transaction, and nobody else has one unless the statement is skipped.
LEMMA AStatement ==
    ASSUME AInv, WInv', ~exposed, NEW c \in Conns, NEW new, Statement(c, new),
           pc[c] \in {"delete", "clear", "root", "rows", "hash"},
           \A d \in Conns \ {c} : pc'[d] = pc[d] /\ job'[d] = job[d],
           job'[c].op = job[c].op, job'[c].goal = job[c].goal, job'[c].arg = job[c].arg,
           (InTx(c) /\ work' = new /\ db' = db /\ Seen(c) = work /\ Heading(c) /\ Progress(c))
              => Heading(c)'
    PROVE  AInv'
<1>1. Good /\ TInv
  BY DEF AInv, WInv
<1>2. Named(c)'
  BY DEF AInv, Named
<1>3. CASE InTx(c)
  <2>1. /\ writer = c /\ writer' = c /\ work' = new /\ db' = db /\ Seen(c) = work
        /\ Progress(c)
    BY <1>1, <1>3, OwnStatement
  <2>2. Heading(c)
    BY <2>1 DEF AInv
  <2> QED
    BY <1>2, <1>3, <2>1, <2>2, AMoved
<1>4. CASE ~InTx(c)
  <2>1. job[c].op = "erase"
    BY <1>4 DEF InTx
  <2>2. /\ writer # c /\ writer' = writer
        /\ writer = NoOne \/ (db' = db /\ work' = work)
    BY <1>1, <2>1, BareStatement
  <2> QED
    BY <1>2, <2>2, NoOneAssumption, AMoved
<1> QED
  BY <1>3, <1>4

LEMMA AStep ==
    ASSUME AInv, WInv', ~exposed, ~exposed', NEW c \in Conns, Step(c)
    PROVE  AInv'
<1>1. /\ Good /\ TInv /\ TypeOK /\ Placed(c) /\ Named(c) /\ job[c] \in Job
      /\ pc \in [Conns -> Labels] /\ job \in [Conns -> Job]
      /\ db \in Tables /\ work \in Tables /\ Seen(c) \in Tables
  BY SeenType DEF AInv, WInv, TInv, TypeOK, Labels
<1>2. CASE BeginDone(c)
  <2>1. /\ pc'[c] = AfterBegin(c) /\ job' = job /\ db' = db /\ work' = db
        /\ writer = NoOne /\ writer' = c
        /\ \A d \in Conns \ {c} : pc'[d] = pc[d]
    BY <1>1, <1>2 DEF BeginDone, CanWrite, Goto
  <2>2. job[c].op \in {"set", "remove", "leaf", "full"}
    BY <1>1, <1>2 DEF BeginDone, Placed, Placing
  <2>3. Heading(c)' /\ Named(c)'
    BY <1>1, <2>1, <2>2 DEF Heading, AfterBegin, Named
  <2> QED
    BY <2>1, <2>3, NoOneAssumption, AMoved
<1>3. CASE BeginRefused(c)
  BY <1>3 DEF BeginRefused
<1>4. CASE Delete(c)
  <2> DEFINE new == [Seen(c) EXCEPT !.root = 0, !.rows = NoRows]
  <2>1. /\ pc[c] = "delete" /\ Statement(c, new) /\ job' = job
        /\ pc'[c] = IF job[c].op \in {"remove", "erase"} THEN "clear" ELSE "ensure"
        /\ \A d \in Conns \ {c} : pc'[d] = pc[d]
    BY <1>1, <1>4 DEF Delete, Goto
  <2>2. new.rows = NoRows /\ job[c].op # "leaf"
    BY <1>1, <2>1 DEF Tables, Placed, Placing
  <2>3. work' = new => Heading(c)'
    BY <2>1, <2>2 DEF Heading
  <2> HIDE DEF new
  <2> QED
    BY <2>1, <2>3, AStatement
<1>5. CASE Clear(c)
  <2> DEFINE new == [Seen(c) EXCEPT !.hash = [rev |-> 0, text |-> NoRows]]
  <2>1. /\ pc[c] = "clear" /\ Statement(c, new) /\ job' = job /\ pc'[c] = AfterClear(c)
        /\ \A d \in Conns \ {c} : pc'[d] = pc[d]
    BY <1>1, <1>5 DEF Clear, Goto
  <2>2. new.rows = Seen(c).rows /\ job[c].op \in {"remove", "leaf", "erase"}
    BY <1>1, <2>1 DEF Tables, Placed, Placing
  <2>3. (work' = new /\ db' = db /\ Seen(c) = work /\ Heading(c)) => Heading(c)'
    BY <2>1, <2>2 DEF Heading, AfterClear
  <2> HIDE DEF new
  <2> QED
    BY <2>1, <2>3, AStatement
<1>6. CASE Ensure(c)
  <2>1. /\ pc[c] = "ensure" /\ pc'[c] = "root" /\ UNCHANGED <<db, work, writer, job>>
        /\ \A d \in Conns \ {c} : pc'[d] = pc[d]
    BY <1>1, <1>6 DEF Ensure, Goto
  <2>2. writer = c /\ Heading(c)
    BY <1>1, <2>1 DEF Good, InTx, AInv
  <2>3. Heading(c)' /\ Named(c)'
    BY <1>1, <2>1, <2>2 DEF Heading, Named
  <2> QED
    BY <2>1, <2>3, AMoved
<1>7. CASE Root(c)
  <2> DEFINE p == IF job[c].op = "leaf" THEN Merged(Seen(c).rows, job[c].arg) ELSE job[c].goal
             new == [Seen(c) EXCEPT !.root = job[c].rev, !.promised = p]
  <2>1. /\ pc[c] = "root" /\ Statement(c, new) /\ pc'[c] = "rows"
        /\ \A d \in Conns \ {c} : pc'[d] = pc[d]
    BY <1>1, <1>7 DEF Root, Goto
  <2>2. /\ job'[c].op = job[c].op /\ job'[c].goal = job[c].goal /\ job'[c].arg = job[c].arg
        /\ \A d \in Conns \ {c} : job'[d] = job[d]
    BY <1>1, <1>7 DEF Root, Job
  <2>3. new.promised = p
    BY <1>1 DEF Tables
  <2>4. (work' = new /\ db' = db /\ Seen(c) = work /\ Heading(c)) => Heading(c)'
    BY <2>1, <2>2, <2>3 DEF Heading
  <2> HIDE DEF new
  <2> QED
    BY <2>1, <2>2, <2>4, AStatement
<1>8. CASE RowsDone(c)
  <2>1. /\ pc[c] = "rows" /\ job[c].todo = {} /\ UNCHANGED <<db, work, writer, job>>
        /\ pc'[c] = IF job[c].op = "leaf" THEN "commit" ELSE "hash"
        /\ \A d \in Conns \ {c} : pc'[d] = pc[d]
    BY <1>1, <1>8 DEF RowsDone, Goto
  <2>2. writer = c /\ Heading(c) /\ Progress(c)
    BY <1>1, <2>1 DEF Good, InTx, AInv
  <2>3. \A e \in Entries : Kept(work, e)
    BY <2>1, <2>2 DEF Progress
  <2>4. work.rows = work.promised
    BY <1>1, <2>3, RowsEqual DEF Kept, Tables
  <2>5. Heading(c)' /\ Named(c)'
    BY <1>1, <2>1, <2>2, <2>4 DEF Heading, Named
  <2> QED
    BY <2>1, <2>5, AMoved
<1>9. CASE Hash(c)
  <2> DEFINE new == [Seen(c) EXCEPT !.hash = [rev |-> job[c].rev, text |-> Hashed(c)]]
  <2>1. /\ pc[c] = "hash" /\ Statement(c, new) /\ job' = job /\ pc'[c] = "commit"
        /\ \A d \in Conns \ {c} : pc'[d] = pc[d]
    BY <1>1, <1>9 DEF Hash, Goto
  <2>2. new.rows = Seen(c).rows /\ job[c].op \in {"set", "full"}
    BY <1>1, <2>1 DEF Tables, Placed, Placing
  <2>3. (work' = new /\ Seen(c) = work /\ Progress(c)) => Heading(c)'
    BY <2>1, <2>2 DEF Heading, Progress
  <2> HIDE DEF new
  <2> QED
    BY <2>1, <2>3, AStatement
<1>10. CASE Commit(c)
  <2>1. /\ pc[c] = "commit" /\ writer = c /\ writer' = NoOne /\ job' = job
        /\ \A d \in Conns \ {c} : pc'[d] = pc[d]
    BY <1>1, <1>10 DEF Commit, Goto, Good, InTx
  <2>2. Named(c)'
    BY <1>1, <2>1 DEF Named
  <2> QED
    BY <2>1, <2>2, NoOneAssumption, AMoved
<1>11. CASE Return(c)
  BY <1>11, AGone
<1>12. ASSUME NEW e \in Entries, Row(c, e) PROVE AInv'
  <2> DEFINE r == IF e \in DOMAIN job[c].goal THEN Put(Seen(c).rows, e, job[c].goal[e])
                  ELSE Without(Seen(c).rows, e)
             new == [Seen(c) EXCEPT !.rows = r]
  <2>1. /\ pc[c] = "rows" /\ Statement(c, new) /\ pc' = pc
    BY <1>1, <1>12 DEF Row, Tables
  <2>2. /\ job'[c].op = job[c].op /\ job'[c].goal = job[c].goal /\ job'[c].arg = job[c].arg
        /\ \A d \in Conns \ {c} : job'[d] = job[d]
    BY <1>1, <1>12 DEF Row, Job
  <2>3. new.promised = Seen(c).promised
    BY <1>1 DEF Tables
  <2>4. (work' = new /\ db' = db /\ Seen(c) = work /\ Heading(c)) => Heading(c)'
    BY <2>1, <2>2, <2>3 DEF Heading
  <2> HIDE DEF new
  <2> QED
    BY <2>1, <2>2, <2>4, AStatement
<1> QED
  BY <1>2, <1>3, <1>4, <1>5, <1>6, <1>7, <1>8, <1>9, <1>10, <1>11, <1>12 DEF Step

LEMMA ExposedStays == Next => (exposed => exposed')
BY DEF Next, Call, Step, Crash, StartRemove, StartErase, StartSet, StartLeaf, StartFull, Start,
       BeginDone, BeginRefused, Delete, Clear, Ensure, Root, RowsDone, Hash, Commit, Return,
       Row, Statement

\* A set keeps the text it was called with also when nothing else is promised.
LEMMA NamedNext ==
    ASSUME TInv, \A c \in Conns : Named(c), Next
    PROVE  \A c \in Conns : Named(c)'
<1>1. PICK c \in Conns : Call(c) \/ Step(c) \/ Crash(c)
  BY DEF Next
<1>2. job \in [Conns -> Job] /\ pc \in [Conns -> Labels]
  BY DEF TInv, TypeOK, Labels
<1>3. CASE Call(c)
  BY <1>2, <1>3 DEF Call, StartRemove, StartErase, StartSet, StartLeaf, StartFull, Start, Named
<1>4. CASE Crash(c) \/ Return(c)
  BY <1>2, <1>4 DEF Crash, Return, Named, NoJob
<1>5. CASE Step(c) /\ ~Return(c)
  <2>1. \A d \in Conns : /\ job'[d].op = job[d].op /\ job'[d].goal = job[d].goal
                         /\ job'[d].arg = job[d].arg
    <3>1. CASE Root(c)
      BY <1>2, <3>1 DEF Root, Job
    <3>2. ASSUME NEW e \in Entries, Row(c, e)
          PROVE  \A d \in Conns : /\ job'[d].op = job[d].op /\ job'[d].goal = job[d].goal
                                  /\ job'[d].arg = job[d].arg
      BY <1>2, <3>2 DEF Row, Job
    <3>3. CASE UNCHANGED job
      BY <3>3
    <3> QED
      BY <1>5, <3>1, <3>2, <3>3 DEF Step, BeginDone, BeginRefused, Delete, Clear, Ensure,
                                    RowsDone, Hash, Commit
  <2> QED
    BY <2>1 DEF Named
<1> QED
  BY <1>1, <1>3, <1>4, <1>5

LEMMA AInvariant == Spec => []AInv
<1>1. Init => AInv
  BY AInit
<1>2. AInv /\ WInv' /\ [Next]_vars => AInv'
  <2> SUFFICES ASSUME AInv, WInv', [Next]_vars PROVE AInv'
    OBVIOUS
  <2>1. CASE UNCHANGED vars
    BY <2>1 DEF vars, AInv, Heading, Named
  <2>2. CASE Next /\ exposed'
    BY <2>2, NamedNext DEF AInv, WInv
  <2>3. CASE Next /\ ~exposed'
    <3>1. ~exposed
      BY <2>3, ExposedStays
    <3>2. PICK c \in Conns : Call(c) \/ Step(c) \/ Crash(c)
      BY <2>3 DEF Next
    <3> QED
      BY <2>3, <3>1, <3>2, ACall, AStep, AGone
  <2> QED
    BY <2>1, <2>2, <2>3
<1> QED
  BY <1>1, <1>2, Invariant, PTL DEF Spec

-----------------------------------------------------------------------------
(* The refinement *)

LEMMA SameRows ==
    /\ Atomic!NoRows = NoRows
    /\ \A r, u : Atomic!Merged(r, u) = Merged(r, u)
BY DEF Atomic!NoRows, NoRows, Atomic!Merged, Merged

Asking == [c \in Conns |-> Asks(c)]

\* A step of c changes what c asks for, and nothing that others ask for.
LEMMA AskingMoved ==
    ASSUME NEW c \in Conns,
           \A d \in Conns \ {c} : pc'[d] = pc[d] /\ job'[d] = job[d]
    PROVE  /\ Asking' = [Asking EXCEPT ![c] = Asks(c)']
           /\ Asking[c] = Asks(c)
<1>1. \A d \in Conns \ {c} : Asks(d)' = Asks(d)
  BY DEF Asks, HasEffect
<1> QED
  BY <1>1 DEF Asking

\* A step that changes neither what readers see nor what c asks for stutters.
LEMMA Stutters ==
    ASSUME NEW c \in Conns,
           \A d \in Conns \ {c} : pc'[d] = pc[d] /\ job'[d] = job[d],
           db'.rows = db.rows, Asks(c)' = Asks(c), exposed' = exposed
    PROVE  UNCHANGED Atomic!vars
<1>1. Asking' = Asking
  BY AskingMoved DEF Asking
<1> QED
  BY <1>1 DEF Atomic!vars, Asking

LEMMA CallIsInvoke ==
    ASSUME AInv, NEW c \in Conns, Call(c)
    PROVE  Atomic!Invoke(c)
<1> DEFINE ks == {Atomic!Asked("remove", NoRows), Atomic!Asked("erase", NoRows)}
                   \cup {Atomic!Asked("set", t) : t \in Texts}
                   \cup {Atomic!Asked("leaf", u) : u \in Updates}
                   \cup {Atomic!Asked("full", Merged(db.rows, u)) : u \in Updates}
<1>1. /\ pc[c] = "idle" /\ db' = db /\ exposed' = exposed
      /\ \A d \in Conns \ {c} : pc'[d] = pc[d] /\ job'[d] = job[d]
  BY DEF Call, StartRemove, StartErase, StartSet, StartLeaf, StartFull, Start, Goto,
         AInv, WInv, TInv, TypeOK
<1>2. Asks(c) = Atomic!Idle
  BY <1>1, SameRows DEF Asks, HasEffect, Atomic!Idle, Atomic!Asked
<1>3. Asks(c)' \in ks
  <2>1. pc \in [Conns -> Labels] /\ job \in [Conns -> Job]
    BY DEF AInv, WInv, TInv, TypeOK, Labels
  <2>2. CASE StartRemove(c)
    BY <2>1, <2>2 DEF StartRemove, Start, Goto, Asks, HasEffect, Atomic!Asked
  <2>3. CASE StartErase(c)
    BY <2>1, <2>3 DEF StartErase, Start, Goto, Asks, HasEffect, Atomic!Asked
  <2>4. ASSUME NEW t \in Texts, StartSet(c, t) PROVE Asks(c)' \in ks
    <3>1. Asks(c)' = Atomic!Asked("set", t)
      BY <2>1, <2>4 DEF StartSet, Start, Goto, Asks, HasEffect, Atomic!Asked
    <3> QED
      BY <3>1
  <2>5. ASSUME NEW u \in Updates, StartLeaf(c, u) PROVE Asks(c)' \in ks
    <3>1. Asks(c)' = Atomic!Asked("leaf", u)
      BY <2>1, <2>5 DEF StartLeaf, Start, Goto, Asks, HasEffect, Atomic!Asked
    <3> QED
      BY <3>1
  <2>6. ASSUME NEW u \in Updates, StartFull(c, u) PROVE Asks(c)' \in ks
    <3>1. Asks(c)' = Atomic!Asked("full", Merged(db.rows, u))
      BY <2>1, <2>6 DEF StartFull, Start, Goto, Asks, HasEffect, Atomic!Asked
    <3> QED
      BY <3>1
  <2> QED
    BY <2>2, <2>3, <2>4, <2>5, <2>6 DEF Call
<1>4. Asking[c] = Atomic!Idle /\ Asking' = [Asking EXCEPT ![c] = Asks(c)']
  BY <1>1, <1>2, AskingMoved
<1> QED
  BY <1>1, <1>3, <1>4, SameRows DEF Atomic!Invoke, Asking

\* What a writer commits is the effect of what it asked for.
LEMMA CommitTakesEffect ==
    ASSUME AInv, ~exposed, NEW c \in Conns, Commit(c)
    PROVE  Atomic!TakeEffect(c)
<1>1. Good /\ TInv /\ pc \in [Conns -> Labels]
  BY DEF AInv, WInv, TInv, TypeOK, Labels
<1>2. /\ pc[c] = "commit" /\ writer = c /\ db' = work /\ job' = job /\ exposed' = exposed
      /\ pc'[c] = "end" /\ \A d \in Conns \ {c} : pc'[d] = pc[d]
  BY <1>1 DEF Commit, Goto, Good, InTx
<1>3. Heading(c) /\ Named(c) /\ job[c].op \in {"set", "remove", "leaf", "full"}
  BY <1>1, <1>2 DEF AInv, TInv, Placed, Placing
<1>4. Asks(c) = [op |-> job[c].op, arg |-> IF job[c].op = "full" THEN job[c].goal ELSE job[c].arg]
  BY <1>2 DEF Asks, HasEffect
<1>5. Asks(c)' = Atomic!Done
  BY <1>2, SameRows DEF Asks, HasEffect, Atomic!Done, Atomic!Asked
<1>6. db'.rows = Atomic!Effect(db.rows, Asks(c))
  BY <1>2, <1>3, <1>4, SameRows DEF Heading, Named, Atomic!Effect
<1>7. Asking[c] = Asks(c) /\ Asking' = [Asking EXCEPT ![c] = Asks(c)']
  BY <1>2, AskingMoved
<1>8. Asks(c) \notin {Atomic!Idle, Atomic!Done}
  BY <1>3, <1>4 DEF Atomic!Idle, Atomic!Done, Atomic!Asked
<1> QED
  BY <1>2, <1>5, <1>6, <1>7, <1>8 DEF Atomic!TakeEffect, Atomic!Pending, Asking

\* An update with null has its effect with its DELETE, unless that is skipped.
LEMMA EraseTakesEffect ==
    ASSUME AInv, ~exposed, NEW c \in Conns, Delete(c), job[c].op = "erase"
    PROVE  Atomic!TakeEffect(c) \/ Atomic!Ignore(c)
<1>1. Good /\ TInv /\ pc \in [Conns -> Labels] /\ Seen(c) \in Tables
  BY SeenType DEF AInv, WInv, TInv, TypeOK, Labels
<1> DEFINE new == [Seen(c) EXCEPT !.root = 0, !.rows = NoRows]
<1>2. /\ pc[c] = "delete" /\ Statement(c, new) /\ job' = job /\ pc'[c] = "clear"
      /\ \A d \in Conns \ {c} : pc'[d] = pc[d]
  BY <1>1 DEF Delete, Goto
<1>3. exposed' = exposed
  BY <1>2 DEF Statement
<1>4. new.rows = NoRows
  BY <1>1 DEF Tables
<1> HIDE DEF new
<1>5. db' = new \/ db' = db
  BY <1>1, <1>2, BareStatement
<1>6. Asks(c).op = "erase" /\ Asks(c)' = Atomic!Done
  BY <1>2, SameRows DEF Asks, HasEffect, Atomic!Done, Atomic!Asked
<1>7. Asking[c] = Asks(c) /\ Asking' = [Asking EXCEPT ![c] = Asks(c)']
  BY <1>2, AskingMoved
<1>8. Asks(c) \notin {Atomic!Idle, Atomic!Done}
  BY <1>6 DEF Atomic!Idle, Atomic!Done, Atomic!Asked
<1>9. CASE db' = new
  <2>1. db'.rows = Atomic!Effect(db.rows, Asks(c))
    BY <1>4, <1>6, <1>9, SameRows DEF Atomic!Effect
  <2> QED
    BY <1>3, <1>6, <1>7, <1>8, <2>1 DEF Atomic!TakeEffect, Atomic!Pending, Asking
<1>10. CASE db' = db
  BY <1>3, <1>6, <1>7, <1>10 DEF Atomic!Ignore, Asking
<1> QED
  BY <1>5, <1>9, <1>10

LEMMA StepImplements ==
    ASSUME AInv, ~exposed, ~exposed', NEW c \in Conns, Step(c)
    PROVE  \/ Atomic!TakeEffect(c) \/ Atomic!Ignore(c) \/ Atomic!Return(c)
           \/ UNCHANGED Atomic!vars
<1>1. Good /\ TInv /\ pc \in [Conns -> Labels] /\ job \in [Conns -> Job] /\ Placed(c)
  BY DEF AInv, WInv, TInv, TypeOK, Labels
<1>2. CASE Commit(c)
  BY <1>2, CommitTakesEffect
<1>3. CASE Delete(c) /\ job[c].op = "erase"
  BY <1>3, EraseTakesEffect
<1>4. CASE Return(c)
  <2>1. /\ pc[c] = "end" /\ pc'[c] = "idle" /\ db' = db /\ exposed' = exposed
        /\ \A d \in Conns \ {c} : pc'[d] = pc[d] /\ job'[d] = job[d]
    BY <1>1, <1>4 DEF Return, Goto
  <2>2. Asks(c) = Atomic!Done /\ Asks(c)' = Atomic!Idle
    BY <2>1, SameRows DEF Asks, HasEffect, Atomic!Done, Atomic!Idle, Atomic!Asked
  <2>3. Asking[c] = Atomic!Done /\ Asking' = [Asking EXCEPT ![c] = Atomic!Idle]
    BY <2>1, <2>2, AskingMoved
  <2> QED
    BY <2>1, <2>3 DEF Atomic!Return, Asking
<1>5. CASE BeginRefused(c)
  BY <1>5 DEF BeginRefused
<1>6. ASSUME BeginDone(c) \/ (Delete(c) /\ job[c].op # "erase") \/ Clear(c) \/ Ensure(c) \/ Root(c)
                \/ RowsDone(c) \/ Hash(c) \/ \E e \in Entries : Row(c, e)
      PROVE  UNCHANGED Atomic!vars
  <2>1. /\ \A d \in Conns \ {c} : pc'[d] = pc[d] /\ job'[d] = job[d]
        /\ exposed' = exposed
    BY <1>1, <1>6 DEF BeginDone, Delete, Clear, Ensure, Root, RowsDone, Hash, Row, Goto, Statement
  <2>2. db'.rows = db.rows
    <3>1. CASE InTx(c)
      BY <1>1, <1>6, <3>1, OwnStatement DEF BeginDone, Delete, Clear, Ensure, Root, RowsDone,
                                            Hash, Row
    <3>2. CASE ~InTx(c)
      <4>1. BeginDone(c) \/ (Clear(c) /\ job[c].op = "erase")
        BY <1>6, <3>2 DEF Delete, Clear, Ensure, Root, RowsDone, Hash, Row, InTx
      <4>2. CASE BeginDone(c)
        BY <4>2 DEF BeginDone
      <4>3. CASE Clear(c) /\ job[c].op = "erase"
        <5> DEFINE new == [Seen(c) EXCEPT !.hash = [rev |-> 0, text |-> NoRows]]
        <5>1. Statement(c, new)
          BY <4>3 DEF Clear
        <5>2. Seen(c) \in Tables /\ new.rows = Seen(c).rows
          BY <1>1, SeenType DEF TInv, Tables
        <5> HIDE DEF new
        <5> QED
          BY <1>1, <4>3, <5>1, <5>2, BareStatement
      <4> QED
        BY <4>1, <4>2, <4>3
    <3> QED
      BY <3>1, <3>2
  <2>3. /\ job'[c].op = job[c].op /\ job'[c].goal = job[c].goal /\ job'[c].arg = job[c].arg
    <3>1. CASE Root(c)
      BY <1>1, <3>1 DEF Root, Job
    <3>2. ASSUME NEW e \in Entries, Row(c, e)
          PROVE  job'[c].op = job[c].op /\ job'[c].goal = job[c].goal /\ job'[c].arg = job[c].arg
      BY <1>1, <3>2 DEF Row, Job
    <3> QED
      BY <1>6, <3>1, <3>2 DEF BeginDone, Delete, Clear, Ensure, RowsDone, Hash
  <2>4. pc[c] # "idle" /\ pc'[c] # "idle" /\ HasEffect(c)' = HasEffect(c)
    BY <1>1, <1>6, <2>3 DEF BeginDone, Delete, Clear, Ensure, Root, RowsDone, Hash, Row, Goto,
                            AfterBegin, AfterClear, HasEffect, Placed, Placing
  <2>5. Asks(c)' = Asks(c)
    BY <2>3, <2>4 DEF Asks
  <2> QED
    BY <2>1, <2>2, <2>5, Stutters
<1> QED
  BY <1>2, <1>3, <1>4, <1>5, <1>6 DEF Step

\* A call that dies before its COMMIT leaves the document as it is.
LEMMA CrashIsDie ==
    ASSUME AInv, NEW c \in Conns, Crash(c)
    PROVE  Atomic!Die(c)
<1>1. /\ pc[c] # "idle" /\ pc'[c] = "idle" /\ db' = db /\ exposed' = exposed
      /\ \A d \in Conns \ {c} : pc'[d] = pc[d] /\ job'[d] = job[d]
  BY DEF Crash, Goto, AInv, WInv, TInv, TypeOK
<1>2. ~HasEffect(c) => job[c].op # "none"
  BY <1>1 DEF AInv, WInv, TInv, TypeOK, Placed, Placing, HasEffect
<1>3. Asks(c) # Atomic!Idle
  BY <1>1, <1>2 DEF Asks, Atomic!Idle, Atomic!Asked
<1>4. Asks(c)' = Atomic!Idle
  BY <1>1, SameRows DEF Asks, HasEffect, Atomic!Idle, Atomic!Asked
<1>5. Asking[c] = Asks(c) /\ Asking' = [Asking EXCEPT ![c] = Atomic!Idle]
  BY <1>1, <1>4, AskingMoved
<1> QED
  BY <1>1, <1>3, <1>5 DEF Atomic!Die, Asking

\* A refused BEGIN: the call has not had its effect.
LEMMA RefusedIsRefuse ==
    ASSUME AInv, NEW c \in Conns, BeginRefused(c)
    PROVE  Atomic!Refuse(c)
<1>1. /\ pc[c] = "begin" /\ pc'[c] \in {"clear", "delete"} /\ UNCHANGED <<db, job>> /\ exposed' = TRUE
      /\ \A d \in Conns \ {c} : pc'[d] = pc[d]
      /\ job[c].op \in {"set", "remove", "leaf", "full"}
  BY DEF BeginRefused, AfterBegin, Goto, AInv, WInv, TInv, TypeOK, Placed, Placing
<1>2. Asks(c)' = Asks(c) /\ Asks(c) \notin {Atomic!Idle, Atomic!Done}
  BY <1>1 DEF Asks, HasEffect, Atomic!Idle, Atomic!Done, Atomic!Asked
<1>3. Asking' = Asking /\ Asking[c] = Asks(c)
  BY <1>1, <1>2, AskingMoved DEF Asking
<1> QED
  BY <1>1, <1>2, <1>3 DEF Atomic!Refuse, Atomic!Pending, Asking

\* For any connections, entries, texts and updates, and however many calls: the
\* calls of he_services.c, statement by statement, interleaved, overtaken and
\* ended by crashes, implement calls that change the document in one step, once,
\* to what they were asked for, as long as no BEGIN was refused.
THEOREM CallsAreOneStep == Spec => CallsImplementAtomic
<1>1. Init => Atomic!Init
  <2> SUFFICES ASSUME Init PROVE Atomic!Init
    OBVIOUS
  <2>1. \A c \in Conns : Asks(c) = Atomic!Idle
    BY SameRows DEF Init, Asks, HasEffect, Atomic!Idle, Atomic!Asked
  <2>2. db.rows = Atomic!NoRows /\ exposed = FALSE
    BY SameRows DEF Init
  <2> QED
    BY <2>1, <2>2 DEF Atomic!Init
<1>2. AInv /\ [Next]_vars => [Atomic!Next]_(Atomic!vars)
  <2> SUFFICES ASSUME AInv, [Next]_vars PROVE [Atomic!Next]_(Atomic!vars)
    OBVIOUS
  <2>1. CASE UNCHANGED vars
    <3>1. \A c \in Conns : Asks(c)' = Asks(c)
      BY <2>1 DEF vars, Asks, HasEffect
    <3> QED
      BY <2>1, <3>1 DEF vars, Atomic!vars
  <2>2. CASE Next /\ exposed
    BY <2>2, ExposedStays DEF Atomic!Next
  <2>3. CASE Next /\ ~exposed
    <3>1. PICK c \in Conns : Call(c) \/ Step(c) \/ Crash(c)
      BY <2>3 DEF Next
    <3>2. CASE Call(c)
      BY <3>2, CallIsInvoke DEF Atomic!Next
    <3>3. CASE Crash(c)
      BY <3>3, CrashIsDie DEF Atomic!Next
    <3>4. CASE Step(c) /\ ~exposed'
      BY <2>3, <3>4, StepImplements DEF Atomic!Next
    <3>5. CASE Step(c) /\ exposed'
      <4>1. BeginRefused(c)
        BY <2>3, <3>5 DEF Step, BeginDone, Delete, Clear, Ensure, Root, RowsDone, Hash, Commit,
                          Return, Row, Statement
      <4> QED
        BY <4>1, RefusedIsRefuse DEF Atomic!Next
    <3> QED
      BY <3>1, <3>2, <3>3, <3>4, <3>5
  <2> QED
    BY <2>1, <2>2, <2>3
<1> QED
  BY <1>1, <1>2, AInvariant, PTL DEF Spec, CallsImplementAtomic, Atomic!Spec
=============================================================================
