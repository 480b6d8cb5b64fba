------------------------------- MODULE CsvFile -------------------------------
(***************************************************************************)
(* Reading a CSV file (csv_file.cpp), one field a step.  A file is a       *)
(* sequence of characters: the byte order mark, the quote, the separator,  *)
(* the two of the line ends, and any other.                                *)
(***************************************************************************)
EXTENDS Naturals, SequencesExt

CONSTANTS
    CsvInput,        \* the files that are read
    Table            \* tables to compare with: sequences of rows of fields

Special == {"quote", "separator", "\r", "\n"}
CsvChar == Special \cup {"bom", "x", "y"}

\* Rows of equally many fields, one at least.
IsTable(table) ==
    /\ table \in Seq(Seq(Seq(CsvChar))) /\ table # <<>>
    /\ \A n \in DOMAIN table : Len(table[n]) = Len(table[1]) /\ table[n] # <<>>

strip_utf8_bom(field) == IF field # <<>> /\ field[1] = "bom" THEN Tail(field) ELSE field

\* (In a table that is written, what looks like a mark before the header is one.)
ASSUME CsvAssumption ==
    /\ CsvInput \subseteq Seq(CsvChar)
    /\ \A table \in Table : IsTable(table) /\ strip_utf8_bom(table[1][1]) = table[1][1]

VARIABLES
    loading,         \* "header", "records", "loaded" or "failed"
    csv,             \* the file
    get,             \* the place in it
    fields,          \* of the present record so far
    header,
    data

csvVars == <<loading, csv, get, fields, header, data>>

-----------------------------------------------------------------------------
\* Parsing a field from a place in the file.

NoField == [ok |-> FALSE, value |-> <<>>, next |-> 0]

Field(value, next) == [ok |-> TRUE, value |-> value, next |-> next]

\* A field with a character before it.
WithFirst(char, field) == IF field.ok THEN Field(<<char>> \o field.value, field.next) ELSE NoField

end_of_record(n) == n <= Len(csv) => csv[n] \in {"\r", "\n"}

\* The rest of a quoted field, from each place in the file.
EscapedFrom[n \in 1..Len(csv) + 1] ==
    IF n > Len(csv) THEN NoField
    ELSE IF csv[n] # "quote" THEN WithFirst(csv[n], EscapedFrom[n + 1])
    ELSE IF n < Len(csv) /\ csv[n + 1] = "quote" THEN WithFirst("quote", EscapedFrom[n + 2])
    ELSE Field(<<>>, n + 1)

parse_escaped_field(n) == EscapedFrom[n + 1]

parse_non_escaped_field(n) ==
    LET stops == {m \in n..Len(csv) + 1 : end_of_record(m) \/ csv[m] = "separator"}
        stop  == CHOOSE m \in stops : \A k \in stops : m <= k
    IN  IF \E m \in n..stop - 1 : csv[m] = "quote" THEN NoField
        ELSE Field(SubSeq(csv, n, stop - 1), stop)

parse_field(n) ==
    IF ~end_of_record(n) /\ csv[n] = "quote" THEN parse_escaped_field(n)
    ELSE parse_non_escaped_field(n)

\* Mutated form: a lone \r ends a record.
eat_newline_Lone(n) ==
    IF n <= Len(csv) /\ csv[n] = "\r" /\ n < Len(csv) /\ csv[n+1] = "\n" THEN n + 2 ELSE n + 1

\* The place after a line end, or 0: \r comes with \n.
eat_newline(n) ==
    IF n > Len(csv) \/ csv[n] = "\n" THEN n + 1
    ELSE IF n < Len(csv) /\ csv[n+1] = "\n" THEN n + 2
    ELSE 0

-----------------------------------------------------------------------------
\* parse_record, field by field.

\* A header is read even of an empty file; after a separator there is a field.
IsReading == loading = "header" \/ (loading = "records" /\ (fields # <<>> \/ get <= Len(csv)))

\* What comes behind a field: another one, or a proper end of the record.
IsSeparated(field) == field.ok /\ ~end_of_record(field.next) /\ csv[field.next] = "separator"
IsLast(field) == field.ok /\ end_of_record(field.next) /\ eat_newline(field.next) # 0

NextField ==
    LET field == parse_field(get)
    IN  /\ IsReading
        /\ IsSeparated(field)
        /\ fields' = Append(fields, field.value)
        /\ get' = field.next + 1
        /\ UNCHANGED <<loading, csv, header, data>>

LastField(field) ==
    /\ IsReading
    /\ IsLast(field)
    /\ get' = eat_newline(field.next)
    /\ fields' = <<>>

ReadHeader ==
    LET field == parse_field(get)
        row   == Append(fields, field.value)
    IN  /\ loading = "header"
        /\ LastField(field)
        /\ header' = [row EXCEPT ![1] = strip_utf8_bom(@)]
        /\ loading' = "records"
        /\ UNCHANGED <<csv, data>>

RowFits(row) == loading = "records" => Len(row) = Len(header)

ReadRecord ==
    LET field == parse_field(get)
        row   == Append(fields, field.value)
    IN  /\ loading = "records"
        /\ LastField(field)
        /\ RowFits(row)
        /\ data' = Append(data, row)
        /\ UNCHANGED <<loading, csv, header>>

FormatError ==
    LET field == parse_field(get)
        row   == Append(fields, field.value)
    IN  /\ IsReading
        /\ ~IsSeparated(field)
        /\ ~(IsLast(field) /\ RowFits(row))
        /\ loading' = "failed"
        /\ UNCHANGED <<csv, get, fields, header, data>>

EndOfRecords ==
    /\ loading = "records" /\ ~IsReading
    /\ loading' = "loaded"
    /\ UNCHANGED <<csv, get, fields, header, data>>

-----------------------------------------------------------------------------

CsvIdle ==
    /\ loading = "idle" /\ csv = <<>> /\ get = 1 /\ fields = <<>>
    /\ header = <<>> /\ data = <<>>

CsvInit ==
    /\ loading = "header" /\ csv \in CsvInput /\ get = 1 /\ fields = <<>>
    /\ header = <<>> /\ data = <<>>

CsvNext == NextField \/ ReadHeader \/ ReadRecord \/ FormatError \/ EndOfRecords

CsvSpec == CsvInit /\ [][CsvNext]_csvVars

-----------------------------------------------------------------------------
\* How a table can be written: which fields in quotes, and with which line ends.

Twice(char) == IF char = "quote" THEN <<"quote", "quote">> ELSE <<char>>
Doubled(field) == FlattenSeq([n \in DOMAIN field |-> Twice(field[n])])
Quoted(field) == <<"quote">> \o (Doubled(field) \o <<"quote">>)

FieldText(field, quoted) == IF quoted THEN Quoted(field) ELSE field

RowText(row, quoted, end) ==
    FlattenSeq([k \in DOMAIN row |->
        FieldText(row[k], quoted[k]) \o (IF k < Len(row) THEN <<"separator">> ELSE end)])

TableText(table, quoted, ends) ==
    FlattenSeq([n \in DOMAIN table |-> RowText(table[n], quoted[n], ends[n])])

Quotings(table) == [DOMAIN table -> [DOMAIN table[1] -> BOOLEAN]]
LineEnds(table) == [DOMAIN table -> {<<"\n">>, <<"\r", "\n">>, <<>>}]

\* Every row has a line end; the last may do without if something is in it.
IsWriting(table, quoted, ends) ==
    /\ \A n \in DOMAIN table : \A k \in DOMAIN table[n] :
          quoted[n][k] \/ Range(table[n][k]) \cap Special = {}
    /\ \A n \in DOMAIN table :
          ends[n] = <<>> => n = Len(table) /\ RowText(table[n], quoted[n], <<>>) # <<>>

\* The files that a table can be written as, without a mark and with one, which
\* goes before everything.
Unmarked(table) ==
    {TableText(table, w[1], w[2]) :
        w \in {v \in Quotings(table) \X LineEnds(table) : IsWriting(table, v[1], v[2])}}

Writings(table) == Unmarked(table) \cup {<<"bom">> \o text : text \in Unmarked(table)}

WritingsOf == [table \in Table |-> Writings(table)]

\* The header of the first column begins with a mark.
WithMark(table) == [table EXCEPT ![1][1] = <<"bom">> \o @]

\* A mark, and then the first header in quotes.
MarkThenQuote(file) == Len(file) >= 2 /\ file[1] = "bom" /\ file[2] = "quote"

\* A table that is read is what was written, but for one mark at the start of its
\* first header; and a file that a table can be written as is read as that table:
\* separators, quotes and line ends within a field are kept (csv_file::load).  The
\* one writing that is refused, always, has a mark before a header in quotes: "an
\* acceptable limitation" (csv_file.cpp, and csv_tests.cpp expects the refusal).  A
\* file of nothing at all has one empty field.
RowsAsWritten ==
    LET read == <<header>> \o data
    IN  /\ loading = "loaded" /\ csv # <<>> => csv \in Unmarked(read) \cup Unmarked(WithMark(read))
        /\ loading \in {"loaded", "failed"} =>
              \A table \in Table : csv \in WritingsOf[table] =>
                  IF MarkThenQuote(csv) THEN loading = "failed"
                  ELSE loading = "loaded" /\ read = table
=============================================================================
