----------------------------- MODULE MCHeEngine -----------------------------
(* A small instance of HeEngine: two keys, documents at one path, below it   *)
(* and beside it, a short scalar that is inlined at limit 1 and a long one   *)
(* that never is.                                                            *)
EXTENDS HeEngine

CONSTANTS a, b, short, long, obj, null

MCKeys   == {a, b}
MCValues == {short, long}
MCSize   == short :> 1 @@ long :> 2

MCDocPaths == {<<a>>, <<a, b>>, <<b>>}

Flat   == Root :> obj @@ <<a>> :> short
Mixed  == Root :> obj @@ <<a>> :> short @@ <<b>> :> long
Nested == Root :> obj @@ <<b>> :> obj @@ <<b, a>> :> short
Hollow == Root :> obj @@ <<b>> :> obj

MCTexts   == {Flat, Mixed, Nested, Hollow}
MCUpdates == {Flat,
              Root :> obj @@ <<b>> :> null,
              Root :> obj @@ <<b>> :> obj @@ <<b, a>> :> null @@ <<b, b>> :> long}
=============================================================================
