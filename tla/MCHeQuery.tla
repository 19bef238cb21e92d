----------------------------- MODULE MCHeQuery -----------------------------
(* A small instance of all that only reads the engine's states: HeQuery,     *)
(* HeTransfer and HeProjection, with HeCsv.  Keys of which one is the        *)
(* beginning of another, as "k" of "k-", documents with numbers, strings,    *)
(* nested, empty and inlined children.                                       *)
EXTENDS HeProjection, HeCsv

CONSTANTS a, aDash, b, one, two, word, obj, null, star, deep, v, w

MCKeys     == {a, aDash, b}
MCValues   == {one, two, word}
MCSize     == one :> 1 @@ two :> 2 @@ word :> 2
MCNum      == one :> 1 @@ two :> 2
MCStrOrder == word :> 1
MCKeyOrder == a :> 1 @@ aDash :> 2 @@ b :> 3
MCSplits   == {<<a, aDash>>}
MCDocPaths == {<<a>>, <<aDash>>}

Obj1(k, t) == [x \in {<<>>} \cup {<<k>> \o y : y \in DOMAIN t} |->
                  IF x = <<>> THEN obj ELSE t[Tail(x)]]
Leaf(c)    == <<>> :> c
Both(t, u) == [x \in DOMAIN t \cup DOMAIN u |-> IF x \in DOMAIN t THEN t[x] ELSE u[x]]

Ages == Both(Obj1(a, Obj1(b, Leaf(two))), Both(Obj1(aDash, Obj1(b, Leaf(one))), Obj1(b, Obj1(b, Leaf(one)))))
Mixed == Both(Obj1(a, Leaf(one)), Both(Obj1(aDash, Obj1(b, Leaf(word))), Obj1(b, Leaf(obj))))
Lists == Both(Obj1(a, Obj1(a, Leaf(one))), Obj1(b, Both(Obj1(a, Leaf(two)), Obj1(b, Leaf(word)))))

MCTexts   == {Ages, Mixed, Lists}
MCUpdates == {Obj1(b, Leaf(word)), Obj1(b, Obj1(a, Leaf(two)))}

Query(f, o, s, t) == [filters |-> f, order |-> o, skip |-> s, take |-> t]
By(k, up) == [key |-> k, ascending |-> up]
If(k, op, c) == [key |-> k, op |-> op, compare |-> c]

MCQueries == {Query({}, <<>>, 0, 0),
              Query({If(<<b>>, "<", two)}, <<>>, 1, 1),
              Query({If(<<a>>, "!exists", null)}, <<>>, 0, 2),
              Query({If(<<b>>, "!=", word)}, <<>>, 0, 0),
              Query({}, <<By(<<b>>, TRUE)>>, 0, 0),
              Query({}, <<By(<<a>>, FALSE), By(<<b>>, TRUE)>>, 0, 1),
              Query({If(<<v>>, "==", a)}, <<>>, 0, 0)}

Filter(i, e) == [include |-> i, exclude |-> e]
MCFilters == {Filter(<<>>, <<>>),
              Filter(<<>>, << <<v, b>>, <<>> >>),
              Filter(<< <<a>>, <<star, aDash>>, <<star, b>>, <<star, a>> >>, << <<a, b>> >>),
              Filter(<< <<aDash, b>>, <<star, b, v>> >>, <<>>),
              Filter(<< <<star, star>> >>, << <<a, deep>> >>),
              Filter(<< <<a, deep>> >>, <<>>)}

Proj(i, e) == [include |-> i, exclude |-> e]
MCProjections == {Proj(<<>>, << <<b, a>> >>),
                  Proj(<< <<a>>, <<b, b>> >>, << <<a, a>> >>),
                  Proj(<< <<a, b>>, <<b, a>> >>, << <<b, b>> >>),
                  Proj(<< <<a, b>>, <<a>> >>, << <<aDash>>, <<aDash, b>> >>),
                  Proj(<<>>, << <<a, b>>, <<b>>, <<a>>, <<aDash>> >>)}

\* Keys with each of the special characters, last in the path and not, and values
\* with escaped quotes; of two keys with one beginning the rest is below "/".
MCCharacters == {"k", "l", "h", "n", "1", "2", "5", "\\", "/", "{", "}", ":", Quote, Comma, Newline, Return}
MCSpellings ==
    {a :> <<"k">> @@ aDash :> <<"k", Quote>> @@ b :> <<"l", Newline>> @@ null :> <<"n">>
         @@ one :> <<"1">> @@ two :> <<"2">> @@ word :> <<Quote, "\\", Quote, Comma, Quote>>,
     a :> <<"k", Quote, Quote>> @@ aDash :> <<"k", Quote, Quote, Comma>> @@ b :> <<"l", Return>>
         @@ null :> <<"n">>
         @@ one :> <<>> @@ two :> <<"2">> @@ word :> <<Quote, Quote>>}
MCCsvHeader == <<"h">>
=============================================================================
