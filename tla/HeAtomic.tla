------------------------------- MODULE HeAtomic -------------------------------
(***************************************************************************)
(* What clients that write one document at the same time are promised.     *)
(*                                                                         *)
(* A call is invoked, takes effect once, in one moment in which the whole  *)
(* document changes, and only then returns.  Two of the calls promise less *)
(* than their names say.  A full update decides what it will write when it *)
(* is invoked, so that it takes effect as a set of a text that may be out  *)
(* of date by then.  An update with null may be ignored.  A client that    *)
(* dies may leave its call without effect, never with half of one.         *)
(*                                                                         *)
(* Once a client was refused its transaction nothing is promised: broken.  *)
(***************************************************************************)
EXTENDS HeRows

CONSTANTS Conns,   \* the clients
          Texts,   \* what they set
          Updates  \* what they merge

VARIABLES doc,    \* the document that readers see
          call,   \* of each client: what it has asked for and not yet got
          broken

vars == <<doc, call, broken>>

Asked(op, arg) == [op |-> op, arg |-> arg]

Idle == Asked("none", NoRows)
Done == Asked("done", NoRows)

Pending(c) == call[c] \notin {Idle, Done}

Effect(d, k) ==
    CASE k.op \in {"set", "full"}     -> k.arg
      [] k.op \in {"remove", "erase"} -> NoRows
      [] k.op = "leaf"                -> Merged(d, k.arg)

Init == /\ doc = NoRows
        /\ call = [c \in Conns |-> Idle]
        /\ broken = FALSE

Invoke(c) ==
    /\ call[c] = Idle
    /\ \E k \in {Asked("remove", NoRows), Asked("erase", NoRows)}
                  \cup {Asked("set", t) : t \in Texts}
                  \cup {Asked("leaf", u) : u \in Updates}
                  \cup {Asked("full", Merged(doc, u)) : u \in Updates} :
           call' = [call EXCEPT ![c] = k]
    /\ UNCHANGED <<doc, broken>>

TakeEffect(c) ==
    /\ Pending(c)
    /\ doc' = Effect(doc, call[c])
    /\ call' = [call EXCEPT ![c] = Done]
    /\ UNCHANGED broken

Ignore(c) ==
    /\ call[c].op = "erase"
    /\ call' = [call EXCEPT ![c] = Done]
    /\ UNCHANGED <<doc, broken>>

Return(c) ==
    /\ call[c] = Done
    /\ call' = [call EXCEPT ![c] = Idle]
    /\ UNCHANGED <<doc, broken>>

Die(c) ==
    /\ call[c] # Idle
    /\ call' = [call EXCEPT ![c] = Idle]
    /\ UNCHANGED <<doc, broken>>

\* Only a call that has not taken effect can break the promise.
Refuse(c) ==
    /\ Pending(c)
    /\ broken' = TRUE
    /\ UNCHANGED <<doc, call>>

Next == \/ \E c \in Conns : \/ Invoke(c) \/ TakeEffect(c) \/ Ignore(c)
                            \/ Return(c) \/ Die(c) \/ Refuse(c)
        \/ broken /\ broken'

Spec == Init /\ [][Next]_vars
=============================================================================
