-------------------------------- MODULE HeCsv --------------------------------
(***************************************************************************)
(* The text of a CSV (he_csv.c): what export_csv prints of the rows and    *)
(* what import_csv reads of them.                                          *)
(*                                                                         *)
(* A text is a sequence of characters.  The four that RFC 4180 gives a     *)
(* meaning stand for themselves, others are ordinary.  A printed row is a  *)
(* record of three texts; a NULL text_value is the empty text, which is    *)
(* how it is printed and how an empty field is read.  Allocation failures  *)
(* are left out.                                                           *)
(***************************************************************************)
EXTENDS HeTransfer

CONSTANTS Characters, \* of which texts are made
          Spellings, \* of each: the text of every key and, as JSON, of every value
          CsvHeader  \* the first line, which has no quote

Quote   == "\""
Comma   == ","
Newline == "\n"
Return  == "\r"

ASSUME CsvAssumption ==
    /\ {Quote, Comma, Newline, Return, "/", "{", "}", ":", "1", "5"} \subseteq Characters
    /\ Spellings \subseteq [Keys \cup Values \cup {Null} -> Seq(Characters)]
    /\ CsvHeader \in Seq(Characters \ {Quote, Newline})

\* The texts one after the other.
Joined(texts) ==
    LET joined[i \in 0..Len(texts)] == IF i = 0 THEN <<>> ELSE joined[i - 1] \o texts[i]
    IN joined[Len(texts)]

-----------------------------------------------------------------------------
(***************************************************************************)
(* Printing                                                                *)
(***************************************************************************)
\* The path and text_value of a row: a container's is the object of its entries.
SpelledPath(r, spelling) ==
    <<"/">> \o Joined([i \in 1..Len(r.path) |->
        spelling[r.path[i]] \o IF i < Len(r.path) \/ r.slash THEN <<"/">> ELSE <<>>])

SpelledValue(v, spelling) == IF v = Obj THEN <<"{", "}">> ELSE spelling[v]

SpelledText(r, spelling) ==
    LET keys == KeysInOrder({Last(x) : x \in DOMAIN r.text \ {Root}})
        entries == [i \in 1..Len(keys) |->
            (IF i > 1 THEN <<Comma>> ELSE <<>>)
                \o <<Quote>> \o spelling[keys[i]] \o <<Quote, ":">>
                \o SpelledValue(r.text[<<keys[i]>>], spelling)]
    IN IF r.slash THEN <<"{">> \o Joined(entries) \o <<"}">>
       ELSE SpelledValue(r.text[Root], spelling)

SpelledRow(r, spelling) ==
    [path |-> SpelledPath(r, spelling),
     type |-> IF r.slash THEN <<"1">> ELSE <<"5">>,
     text |-> SpelledText(r, spelling)]

Columns(rows, spelling) == [i \in 1..Len(rows) |-> SpelledRow(rows[i], spelling)]

Doubled(text) ==
    Joined([i \in 1..Len(text) |-> IF text[i] = Quote THEN <<Quote, Quote>> ELSE <<text[i]>>])

\* An escape that takes a text without commas for a plain one (a fault).
EscapeCommas(text) ==
    IF Comma \notin Range(text) THEN text ELSE <<Quote>> \o Doubled(text) \o <<Quote>>

Escape(text) ==
    IF Range(text) \cap {Comma, Quote, Newline, Return} = {} THEN text
    ELSE <<Quote>> \o Doubled(text) \o <<Quote>>

PrintedRow(row) == Escape(row.path) \o <<Comma>> \o row.type \o <<Comma>> \o Escape(row.text)

Printed(rows) ==
    CsvHeader \o <<Newline>> \o Joined([i \in 1..Len(rows) |-> PrintedRow(rows[i]) \o <<Newline>>])

-----------------------------------------------------------------------------
(***************************************************************************)
(* Reading                                                                 *)
(***************************************************************************)
\* Lines end at the newlines outside quotes, and at the end of the text.
SplitAt(s, c) ==
    IF c = Newline /\ ~s.quoted
    THEN [s EXCEPT !.lines = Append(@, s.line), !.line = <<>>]
    ELSE [s EXCEPT !.line = Append(@, c), !.quoted = (c = Quote) # @]

Lines(text) ==
    LET split[i \in 0..Len(text)] ==
            IF i = 0 THEN [lines |-> <<>>, line |-> <<>>, quoted |-> FALSE]
            ELSE SplitAt(split[i - 1], text[i])
        ended == split[Len(text)]
    IN Append(ended.lines, ended.line)

WithoutReturns(line) ==
    SubSeq(line, 1, CHOOSE n \in 0..Len(line) :
                        /\ n > 0 => line[n] # Return
                        /\ \A i \in n+1..Len(line) : line[i] = Return)

\* Within quotes two quotes are one, any other quote changes between inside and
\* outside, and a comma outside ends the field.
FieldAt(s, line, i) ==
    LET twice == s.quoted /\ i < Len(line) /\ line[i + 1] = Quote IN
    CASE s.skip -> [s EXCEPT !.skip = FALSE]
      [] ~s.skip /\ line[i] = Quote /\ twice -> [s EXCEPT !.field = Append(@, Quote), !.skip = TRUE]
      [] ~s.skip /\ line[i] = Quote /\ ~twice -> [s EXCEPT !.quoted = ~@]
      [] ~s.skip /\ line[i] = Comma /\ ~s.quoted ->
             [s EXCEPT !.fields = Append(@, s.field), !.field = <<>>]
      [] OTHER -> [s EXCEPT !.field = Append(@, line[i])]

Fields(line) ==
    LET read[i \in 0..Len(line)] ==
            IF i = 0 THEN [fields |-> <<>>, field |-> <<>>, quoted |-> FALSE, skip |-> FALSE]
            ELSE FieldAt(read[i - 1], line, i)
        ended == read[Len(line)]
    IN Append(ended.fields, ended.field)

\* A line of fewer than two fields is passed over.
WithRow(rows, fields) ==
    IF Len(fields) < 2 THEN rows
    ELSE Append(rows, [path |-> fields[1], type |-> fields[2],
                       text |-> IF Len(fields) > 2 THEN fields[3] ELSE <<>>])

\* The first line is not looked at.
Parsed(text) ==
    LET lines == Tail(Lines(text))
        parsed[i \in 0..Len(lines)] ==
            IF i = 0 THEN <<>> ELSE WithRow(parsed[i - 1], Fields(WithoutReturns(lines[i])))
    IN parsed[Len(lines)]

-----------------------------------------------------------------------------
\* A CSV carries every row: whatever keys and values hold, quotes, commas, line
\* ends and a carriage return at the end included, what import_csv reads of a
\* CSV is what export_csv printed, and no row swallows or splits the next
\* (he_csv.c: the two quote counters of the line and the field splitters and
\* the escape agree).
CsvCarriesRows ==
    \A p \in DocPaths, spelling \in Spellings :
        Exists(p) => LET rows == Columns(ExportRows(p), spelling) IN Parsed(Printed(rows)) = rows
=============================================================================
