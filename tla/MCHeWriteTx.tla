---------------------------- MODULE MCHeWriteTx ----------------------------
(* A small instance of HeWriteTx: two connections and a document of two     *)
(* entries, so that the rows of two calls can be told apart and mixed.      *)
EXTENDS HeWriteTx, TLC

CONSTANTS x, y, one, two

MCTexts   == {x :> one, x :> two @@ y :> two}
MCUpdates == {x :> Null, y :> one}
=============================================================================
