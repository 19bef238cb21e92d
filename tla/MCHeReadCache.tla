--------------------------- MODULE MCHeReadCache ---------------------------
(* A small instance of HeReadCache: a document, one below it and one beside *)
(* it, room for two entries, and one other writer.                          *)
EXTENDS HeReadCache

CONSTANTS a, b, long, obj, null, other

MCKeys   == {a, b}
MCValues == {long}
MCSize   == long :> 2

MCDocPaths == {<<a>>, <<a, b>>, <<b>>}

Flat   == Root :> obj @@ <<a>> :> long
Nested == Root :> obj @@ <<b>> :> obj @@ <<b, b>> :> long

MCTexts   == {Flat, Nested}
MCUpdates == {Root :> obj @@ <<b>> :> long,
              Root :> obj @@ <<b>> :> obj @@ <<b, a>> :> long}
=============================================================================
