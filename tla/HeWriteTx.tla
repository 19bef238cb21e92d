----------------------------- MODULE HeWriteTx -----------------------------
(***************************************************************************)
(* The write calls of he_services.c taken apart into the statements they   *)
(* run, by several connections on one document.                            *)
(*                                                                         *)
(* he_repo_begin_write_tx runs BEGIN IMMEDIATE without looking at its      *)
(* result, and no write looks at the result of its sqlite3_step.  A call   *)
(* whose BEGIN is refused goes on, each statement a transaction of its     *)
(* own, and each of those may be refused too and is then skipped.          *)
(*                                                                         *)
(* SQLite in WAL mode (libsql-engine.ts:24-33) is external.  There is one  *)
(* writer at a time.  A statement waits up to busy_timeout for the writer, *)
(* but not when its connection is reading: then it is refused at once, and *)
(* it is refused as well when what the connection reads is out of date.  A *)
(* connection reads as long as a SELECT that gave a row is neither reset   *)
(* nor finalized: pin.  The statements of a call are finalized when the    *)
(* outer SELECT ends (he_stmt_cache.c:100-111), so that pins end with the  *)
(* call.                                                                   *)
(*                                                                         *)
(* Abstractions: the document has entries without inner structure, each a  *)
(* row; the containers above it exist, as after any first write below      *)
(* them; a call runs outside transaction(), so that it owns its            *)
(* transaction; other tables of the database are left alone.               *)
(***************************************************************************)
EXTENDS HeRows, Naturals, FiniteSets

CONSTANTS Conns,    \* connections, each in a process of its own
          NoOne,    \* no connection
          Texts,    \* what clients set: functions from entries to values
          Updates,  \* what clients merge: functions to values and Null
          MaxCalls  \* bound: how many revisions a behaviour draws

ASSUME NoOneAssumption == NoOne \notin Conns
ASSUME NullAssumption == Null \notin Values
ASSUME MaxCallsAssumption == MaxCalls \in Nat

VARIABLES db,        \* the tables as committed
          work,      \* the tables as the writer sees them
          writer,    \* the connection with an open write transaction
          clock,     \* the last revision drawn
          pc, job,   \* of each connection: the next statement, and its call
          pin,       \* of each connection: what it holds a snapshot of
          overtaken, \* connections whose full update read what has changed since
          exposed    \* some BEGIN was refused and its call went on

vars == <<db, work, writer, clock, pc, job, pin, overtaken, exposed>>

ASSUME InputAssumption == Texts \subseteq Rows /\ Updates \subseteq Update

\* root is the revision of the root row, 0 if there is none; promised is a
\* ghost, the rows that the call that wrote the root row means to leave.
Tables == [root : Nat, rows : Rows, hash : [rev : Nat, text : Rows], promised : Rows]

Job == [op : {"none", "set", "remove", "leaf", "full", "erase"},
        arg : Update, goal : Rows, todo : SUBSET Entries, rev : Nat]

NoJob == [op |-> "none", arg |-> NoRows, goal |-> NoRows, todo |-> {}, rev |-> 0]

Put(r, e, v) == [x \in DOMAIN r \cup {e} |-> IF x = e THEN v ELSE r[x]]
Without(r, e) == [x \in DOMAIN r \ {e} |-> r[x]]

-----------------------------------------------------------------------------
(***************************************************************************)
(* Statements                                                              *)
(***************************************************************************)
Seen(c) == IF writer = c THEN work ELSE db

CanWrite(c) == writer = NoOne /\ pin[c] # "stale"

\* What a commit of c does to the others: their snapshots are out of date.
Overtake(c) ==
    /\ pin' = [d \in Conns |-> IF d # c /\ pin[d] = "current" THEN "stale" ELSE pin[d]]
    /\ overtaken' = overtaken \cup {d \in Conns \ {c} : job[d].op = "full"}

\* A statement of c that leaves new: inside its transaction, or committed at
\* once, or refused and skipped.
Statement(c, new) ==
    /\ UNCHANGED <<writer, clock, exposed>>
    /\ \/ writer = c /\ work' = new /\ UNCHANGED <<db, pin, overtaken>>
       \/ writer # c /\ CanWrite(c) /\ db' = new /\ work' = new /\ Overtake(c)
       \/ writer # c /\ ~CanWrite(c) /\ UNCHANGED <<db, work, pin, overtaken>>

Goto(c, label) == pc' = [pc EXCEPT ![c] = label]

-----------------------------------------------------------------------------
(***************************************************************************)
(* Calls                                                                   *)
(***************************************************************************)
Init == /\ db = [root |-> 0, rows |-> NoRows, hash |-> [rev |-> 0, text |-> NoRows],
                 promised |-> NoRows]
        /\ work = db
        /\ writer = NoOne
        /\ clock = 0
        /\ pc = [c \in Conns |-> "idle"]
        /\ job = [c \in Conns |-> NoJob]
        /\ pin = [c \in Conns |-> "none"]
        /\ overtaken = {}
        /\ exposed = FALSE

Armed == db.root # 0 /\ db.hash.rev = db.root

\* A call that draws a revision and goes to its first write.
Start(c, label, op, arg, goal) ==
    /\ pc[c] = "idle"
    /\ clock < MaxCalls
    /\ clock' = clock + 1
    /\ job' = [job EXCEPT ![c] = [op |-> op, arg |-> arg, goal |-> goal,
                                  todo |-> DOMAIN goal, rev |-> clock + 1]]
    /\ Goto(c, label)
    /\ UNCHANGED <<db, work, writer, overtaken, exposed>>

\* set_json with a value: the lookup of the hash, whose statement stays open if
\* it gave a row; a set of the text whose hash is armed returns.
StartSet(c, t) ==
    /\ ~(Armed /\ db.hash.text = t)
    /\ Start(c, "begin", "set", t, t)
    /\ pin' = [pin EXCEPT ![c] = IF Armed THEN "current" ELSE "none"]

StartRemove(c) == Start(c, "begin", "remove", NoRows, NoRows) /\ UNCHANGED pin

\* update_json with null opens no transaction.
StartErase(c) == Start(c, "delete", "erase", NoRows, NoRows) /\ UNCHANGED pin

\* Faults: the leaf path opens no transaction; the merge forgets what it read.
StartLeafBare(c, u) == Start(c, "clear", "leaf", u, Merged(NoRows, u)) /\ UNCHANGED pin
StartFullBlind(c, u) == Start(c, "begin", "full", u, Merged(NoRows, u)) /\ UNCHANGED pin

StartLeaf(c, u) ==
    /\ Start(c, "begin", "leaf", u, Merged(NoRows, u))
    /\ UNCHANGED pin

\* The full update reads and merges before it opens the transaction.
StartFull(c, u) == Start(c, "begin", "full", u, Merged(db.rows, u)) /\ UNCHANGED pin

AfterBegin(c) == IF job[c].op = "leaf" THEN "clear" ELSE "delete"

BeginDone(c) ==
    /\ pc[c] = "begin"
    /\ CanWrite(c)
    /\ writer' = c
    /\ work' = db
    /\ Goto(c, AfterBegin(c))
    /\ UNCHANGED <<db, clock, job, pin, overtaken, exposed>>

\* Refused: at once if the connection reads, else when the timeout has run out.
BeginRefused(c) ==
    /\ pc[c] = "begin"
    /\ ~CanWrite(c)
    /\ exposed' = TRUE
    /\ Goto(c, AfterBegin(c))
    /\ UNCHANGED <<db, work, writer, clock, job, pin, overtaken>>

\* The root row and all the rows go.
Delete(c) ==
    /\ pc[c] = "delete"
    /\ Statement(c, [Seen(c) EXCEPT !.root = 0, !.rows = NoRows])
    /\ Goto(c, IF job[c].op \in {"remove", "erase"} THEN "clear" ELSE "ensure")
    /\ UNCHANGED job

\* A null path of set_json that returns without its COMMIT (a fault).
AfterClearLeaking(c) == IF job[c].op = "leaf" THEN "ensure" ELSE "end"

\* A leaf update that commits before it has written its rows (a fault).
AfterClearEarly(c) == IF job[c].op \in {"leaf", "remove"} THEN "commit" ELSE "end"

AfterClear(c) == CASE job[c].op = "leaf"   -> "ensure"
                   [] job[c].op = "remove" -> "commit"
                   [] OTHER                -> "end"

Clear(c) ==
    /\ pc[c] = "clear"
    /\ Statement(c, [Seen(c) EXCEPT !.hash = [rev |-> 0, text |-> NoRows]])
    /\ Goto(c, AfterClear(c))
    /\ UNCHANGED job

\* ensure_intermediate_paths: nothing to create, but its last SELECT gave a row.
Ensure(c) ==
    /\ pc[c] = "ensure"
    /\ pin' = [pin EXCEPT ![c] = IF @ = "none" THEN "current" ELSE @]
    /\ Goto(c, "root")
    /\ UNCHANGED <<db, work, writer, clock, job, overtaken, exposed>>

Root(c) ==
    /\ pc[c] = "root"
    /\ Statement(c, [Seen(c) EXCEPT
                        !.root = job[c].rev,
                        !.promised = IF job[c].op = "leaf" THEN Merged(Seen(c).rows, job[c].arg)
                                     ELSE job[c].goal])
    /\ job' = [job EXCEPT ![c].todo = IF job[c].op = "leaf" THEN DOMAIN job[c].arg ELSE @]
    /\ Goto(c, "rows")

\* One row: inserted, or, by a null of the leaf path, deleted.
Row(c, e) ==
    /\ pc[c] = "rows"
    /\ e \in job[c].todo
    /\ Statement(c, [Seen(c) EXCEPT
                        !.rows = IF e \in DOMAIN job[c].goal THEN Put(@, e, job[c].goal[e])
                                 ELSE Without(@, e)])
    /\ job' = [job EXCEPT ![c].todo = @ \ {e}]
    /\ UNCHANGED pc

RowsDone(c) ==
    /\ pc[c] = "rows"
    /\ job[c].todo = {}
    /\ Goto(c, IF job[c].op = "leaf" THEN "commit" ELSE "hash")
    /\ UNCHANGED <<db, work, writer, clock, job, pin, overtaken, exposed>>

\* The hash of the update instead of the merged document (a fault).
HashedArg(c) == Merged(NoRows, job[c].arg)

Hashed(c) == job[c].goal

Hash(c) ==
    /\ pc[c] = "hash"
    /\ Statement(c, [Seen(c) EXCEPT !.hash = [rev |-> job[c].rev, text |-> Hashed(c)]])
    /\ Goto(c, "commit")
    /\ UNCHANGED job

\* COMMIT; without a transaction it fails, and nobody looks.
Commit(c) ==
    /\ pc[c] = "commit"
    /\ Goto(c, "end")
    /\ IF writer = c
       THEN db' = work /\ writer' = NoOne /\ Overtake(c) /\ UNCHANGED work
       ELSE UNCHANGED <<db, work, writer, pin, overtaken>>
    /\ UNCHANGED <<clock, job, exposed>>

\* The call returns its revision; its statements are finalized.
Return(c) ==
    /\ pc[c] = "end"
    /\ Goto(c, "idle")
    /\ job' = [job EXCEPT ![c] = NoJob]
    /\ pin' = [pin EXCEPT ![c] = "none"]
    /\ overtaken' = overtaken \ {c}
    /\ UNCHANGED <<db, work, writer, clock, exposed>>

\* The process dies; what it had not committed is gone.
Crash(c) ==
    /\ pc[c] # "idle"
    /\ Goto(c, "idle")
    /\ IF writer = c THEN writer' = NoOne /\ work' = db ELSE UNCHANGED <<writer, work>>
    /\ job' = [job EXCEPT ![c] = NoJob]
    /\ pin' = [pin EXCEPT ![c] = "none"]
    /\ overtaken' = overtaken \ {c}
    /\ UNCHANGED <<db, clock, exposed>>

Step(c) == \/ BeginDone(c) \/ BeginRefused(c) \/ Delete(c) \/ Clear(c) \/ Ensure(c)
           \/ Root(c) \/ RowsDone(c) \/ Hash(c) \/ Commit(c) \/ Return(c)
           \/ \E e \in Entries : Row(c, e)

Call(c) == \/ StartRemove(c) \/ StartErase(c)
           \/ \E t \in Texts : StartSet(c, t)
           \/ \E u \in Updates : StartLeaf(c, u) \/ StartFull(c, u)

Next == \E c \in Conns : Call(c) \/ Step(c) \/ Crash(c)

Spec == Init /\ [][Next]_vars

\* The calls are synchronous C code: once begun, a call goes on to its end.
FairSpec == Spec /\ \A c \in Conns : WF_vars(Step(c))

-----------------------------------------------------------------------------
(***************************************************************************)
(* Properties                                                              *)
(***************************************************************************)

\* Shapes; and a write transaction is open only inside a call that opened it.
TypeOK ==
    /\ db \in Tables
    /\ work \in Tables
    /\ writer \in Conns \cup {NoOne}
    /\ clock \in 0..MaxCalls
    /\ pc \in [Conns -> {"idle", "begin", "delete", "clear", "ensure", "root", "rows",
                         "hash", "commit", "end"}]
    /\ job \in [Conns -> Job]
    /\ pin \in [Conns -> {"none", "current", "stale"}]
    /\ overtaken \subseteq Conns
    /\ exposed \in BOOLEAN
    /\ \A c \in Conns : writer = c => pc[c] \notin {"idle", "begin", "end"}

Whole == /\ db.root # 0 => db.rows = db.promised
         /\ db.root = 0 => db.rows = NoRows

\* A reader finds all the rows of the call that wrote the root row, or none:
\* never a document half deleted, half written, or made of the rows of two
\* calls, whatever crashes and whoever else writes, as long as no BEGIN was
\* refused (he_repo.c:26-51).
WholeUnlessExposed == exposed \/ Whole

\* What he_repo.c:33-34 says: atomicity is preserved for calls on their own.
CallsAreAtomic == Whole

\* A hash that counts is the hash of what is stored, also while a removal has
\* deleted the rows and not yet the hash, and after a crash between the two
\* (he_services.c:215-237).
HashUnlessExposed == exposed \/ (Armed => db.rows = db.hash.text)

\* Entries that the update u names are set aside.
Others(r, u) == [e \in DOMAIN r \ DOMAIN u |-> r[e]]

Finishes(c) == pc[c] = "commit" /\ pc'[c] = "end" /\ job[c].op \in {"leaf", "full"}

\* An update keeps the entries it does not name as they are when it commits.  A
\* full update may bring back old ones only if another connection committed
\* after it had read the document (he_services.c:242-260 and 362); the leaf
\* path never does.
UpdateKeepsOthers ==
    [][\A c \in Conns :
          (Finishes(c) /\ writer = c)
             => \/ Others(db'.rows, job[c].arg) = Others(db.rows, job[c].arg)
                \/ c \in overtaken]_vars

\* What libsql-store.ts:421 says of update: keys not mentioned are preserved
\* (asked of calls that run in a transaction, all of them).
UpdatePreserves ==
    [][\A c \in Conns :
          (Finishes(c) /\ writer = c /\ ~exposed)
             => Others(db'.rows, job[c].arg) = Others(db.rows, job[c].arg)]_vars

\* What libsql-engine.ts:20 says of busy_timeout: writers wait instead of an
\* immediate SQLITE_BUSY, so only a connection that waits is ever refused.
WritersWait ==
    [][\A c \in Conns : (pc[c] = "begin" /\ exposed' # exposed) => pin[c] = "none"]_vars

\* The promise of HeAtomic.  A call has taken effect when its transaction is
\* committed; an update with null, which has none, when it has run its DELETE.
HasEffect(c) == pc[c] = "end" \/ (pc[c] = "clear" /\ job[c].op = "erase")

Asks(c) ==
    CASE pc[c] = "idle" -> [op |-> "none", arg |-> NoRows]
      [] HasEffect(c)   -> [op |-> "done", arg |-> NoRows]
      [] OTHER          -> [op  |-> job[c].op,
                            arg |-> IF job[c].op = "full" THEN job[c].goal ELSE job[c].arg]

Atomic == INSTANCE HeAtomic WITH
              doc <- db.rows, call <- [c \in Conns |-> Asks(c)], broken <- exposed

\* Calls implement their promise: each changes the document in one step, once,
\* before it returns, to what its arguments say, whatever other calls, crashes
\* and snapshots come between its statements, as long as no BEGIN was refused
\* (he_repo.c:26-51 with all its callers in he_services.c).
CallsImplementAtomic == Atomic!Spec

\* Nobody keeps the write lock, whatever returns early, is refused or crashes.
LockIsReleased == []<>(writer = NoOne)
=============================================================================
