----------------------------- MODULE ConfigFile -----------------------------
(***************************************************************************)
(* Reading a configuration file into settings: config_file::load_variables *)
(* and the parser behind it (config_file_parser.cpp).  A file is a         *)
(* sequence of characters, of which the parser tells apart those below.    *)
(* One step reads one line, or an assignment whose value goes over lines.  *)
(***************************************************************************)
EXTENDS Naturals, Sequences, FiniteSets, SequencesExt

CONSTANTS
    ConfigInput      \* the files that are read

VarId == {"a", "b"}
Blank == {"blank"}
LineEnd == {"\n", "\r"}
ConfigChar == VarId \cup Blank \cup LineEnd \cup {"=", "#", "<", "?", ">"}

ASSUME ConfigAssumption == ConfigInput \subseteq Seq(ConfigChar)

VARIABLES
    reading,         \* how far load_variables has come
    input,
    cur,             \* the next character
    variables        \* [setting -> the values it was given]

configVars == <<reading, input, cur, variables>>

-----------------------------------------------------------------------------
\* The rules of the parser, each from a place in the file to the place after it.

\* The place after the longest run of such characters.
Past(n, chars) == Min({m \in n..Len(input) + 1 : m > Len(input) \/ input[m] \notin chars})

At(n, chars) == n <= Len(input) /\ input[n] \in chars

AtEnd(n) == n > Len(input)

Failed == [ok |-> FALSE, value |-> <<>>, next |-> 0]

\* Trailing white space is removed, line ends too though there are none.
Trimmed(value) ==
    LET kept == {n \in DOMAIN value : value[n] \notin Blank \cup LineEnd}
    IN  IF kept = {} THEN <<>> ELSE SubSeq(value, 1, Max(kept))

\* Mutated form: the value may be closed by the ? that opens it.
MultiLine_Overlap(n) ==
    LET closing == {m \in n+1..Len(input) - 1 : input[m] = "?" /\ input[m+1] = ">"}
    IN  IF closing = {} THEN Failed
        ELSE [ok |-> TRUE, value |-> SubSeq(input, n + 2, Min(closing) - 1),
              next |-> Past(Min(closing) + 2, Blank)]

\* <? ... ?>
MultiLine(n) ==
    LET closing == {m \in n+2..Len(input) - 1 : input[m] = "?" /\ input[m+1] = ">"}
    IN  IF closing = {} THEN Failed
        ELSE [ok |-> TRUE, value |-> SubSeq(input, n + 2, Min(closing) - 1),
              next |-> Past(Min(closing) + 2, Blank)]

SingleLine(n) ==
    LET stop == Past(n, ConfigChar \ (LineEnd \cup {"#"}))
    IN  [ok |-> TRUE, value |-> Trimmed(SubSeq(input, n, stop - 1)), next |-> stop]

rule_value(n) == IF At(n, {"<"}) /\ At(n + 1, {"?"}) THEN MultiLine(n) ELSE SingleLine(n)

\* The value of the setting whose name starts at place n; at the end of the file
\* there may be none after the equals sign.
rule_assign(n) ==
    LET equals == Past(Past(n, VarId), Blank)
        value  == Past(equals + 1, Blank)
    IN  IF ~At(equals, {"="}) THEN Failed
        ELSE IF AtEnd(value) THEN [ok |-> TRUE, value |-> <<>>, next |-> value]
        ELSE rule_value(value)

NameAt(n) == SubSeq(input, n, Past(n, VarId) - 1)

rule_comment(n) == IF At(n, {"#"}) THEN Past(n, ConfigChar \ LineEnd) ELSE n

\* Mutated form: a lone \r is not passed over.
next_line_Stays(n) ==
    IF At(n, {"\r"}) THEN IF At(n + 1, {"\n"}) THEN n + 2 ELSE n ELSE n + 1

next_line(n) == IF At(n, {"\r"}) /\ At(n + 1, {"\n"}) THEN n + 2 ELSE n + 1

-----------------------------------------------------------------------------

\* Mutated form: the last value counts.
insert_Replaces(name, value) == [k \in DOMAIN variables \cup {name} |->
    IF k = name THEN <<value>> ELSE variables[k]]

\* A setting that is there already gets ", " and the value at its end.
insert(name, value) == [k \in DOMAIN variables \cup {name} |->
    IF k # name THEN variables[k]
    ELSE IF k \in DOMAIN variables THEN Append(variables[k], value) ELSE <<value>>]

\* What is left of the line after its assignment: nothing, or a comment and a
\* line end.
RestOfLine(n) ==
    LET rest == rule_comment(n)
    IN  IF AtEnd(rest) THEN reading' = "loaded" /\ cur' = rest
        ELSE /\ At(rest, LineEnd)
             /\ cur' = next_line(rest)
             /\ UNCHANGED reading

LineHolds(n) == LET rest == rule_comment(n) IN AtEnd(rest) \/ At(rest, LineEnd)

EmptyLine ==
    LET start == Past(cur, Blank)
    IN  /\ reading = "file"
        /\ ~At(start, VarId)
        /\ RestOfLine(start)
        /\ UNCHANGED <<input, variables>>

AssignmentLine ==
    LET start == Past(cur, Blank)
        assigned == rule_assign(start)
    IN  /\ reading = "file"
        /\ At(start, VarId)
        /\ assigned.ok
        /\ RestOfLine(assigned.next)
        /\ variables' = insert(NameAt(start), assigned.value)
        /\ UNCHANGED input

\* A config_parse_error: the settings read so far are cleared and the client
\* exits.
SyntaxError ==
    LET start == Past(cur, Blank)
        assigned == rule_assign(start)
    IN  /\ reading = "file"
        /\ IF At(start, VarId) THEN ~(assigned.ok /\ LineHolds(assigned.next))
           ELSE ~LineHolds(start)
        /\ reading' = "failed"
        /\ variables' = <<>>
        /\ UNCHANGED <<input, cur>>

-----------------------------------------------------------------------------

ConfigIdle == reading = "idle" /\ input = <<>> /\ cur = 1 /\ variables = <<>>

ConfigInit == reading = "file" /\ input \in ConfigInput /\ cur = 1 /\ variables = <<>>

ConfigNext == EmptyLine \/ AssignmentLine \/ SyntaxError

ConfigSpec == ConfigInit /\ [][ConfigNext]_configVars

-----------------------------------------------------------------------------
\* The grammar that config_file_parser.hpp states, with what its comment leaves
\* out: a lone \r ends a line, and a multi line value may have ? and > in it.

Only(m, n, chars) == \A k \in m..n - 1 : input[k] \in chars

IsComment(m, n) == m = n \/ (input[m] = "#" /\ Only(m + 1, n, ConfigChar \ LineEnd))

\* <value>: from place m to n, given by its text from i to j.
IsValue(m, n, i, j) ==
    LET opens == m + 1 < n /\ input[m] = "<" /\ input[m+1] = "?"
        Closes(k) == k + 1 < n /\ input[k] = "?" /\ input[k+1] = ">"
    IN  IF opens
        THEN /\ i = m + 2
             /\ j >= i /\ Closes(j)
             /\ \A k \in i..j - 1 : ~Closes(k)
             /\ Only(j + 2, n, Blank)
        ELSE /\ ~(At(m, {"<"}) /\ At(m + 1, {"?"}))
             /\ i = m
             /\ Only(m, n, ConfigChar \ (LineEnd \cup {"#"}))
             /\ Only(j, n, Blank)
             /\ j \in m..n
             /\ j > m => input[j - 1] \notin Blank

\* An assignment from place m to n: its name and its value.
Assignments(m, n) ==
    LET names == {v \in m+1..n : Only(m, v, VarId)}
        Equals(v) == {e \in v..n-1 : input[e] = "=" /\ Only(v, e, Blank)}
        Starts(e) == {s \in e+1..n : Only(e + 1, s, Blank) /\ ~(s < n /\ At(s, Blank))}
        Texts(s) == {t \in {s, s + 2} \X (s..n) : IsValue(s, n, t[1], t[2])}
        Values(v) == UNION {UNION {Texts(s) : s \in Starts(e)} : e \in Equals(v)}
    IN  UNION {{<<SubSeq(input, m, v - 1), SubSeq(input, t[1], t[2] - 1)>> : t \in Values(v)} :
                   v \in names}

\* What the line from place m to n says, line end not included.
LineMeanings(m, n) ==
    UNION {LET starts == {a \in m..c : Only(m, a, Blank)}
           IN  {<<x>> : x \in UNION {Assignments(a, c) : a \in starts}}
               \cup (IF c \in starts THEN {<<>>} ELSE {})
           : c \in {c \in m..n : IsComment(c, n)}}

\* What the lines from place m on say.
FileMeanings[m \in 1..Len(input) + 1] ==
    UNION {LET lines == LineMeanings(m, n)
               rest == IF AtEnd(n) THEN {<<>>}
                       ELSE FileMeanings[IF At(n, {"\r"}) /\ At(n + 1, {"\n"}) THEN n + 2 ELSE n + 1]
           IN  {l \o r : l \in lines, r \in rest}
           : n \in {n \in m..Len(input) + 1 : AtEnd(n) \/ At(n, LineEnd)}}

\* The values that a list of assignments gives a setting, in their order.
ValuesOf(assignments, name) ==
    FlattenSeq([n \in DOMAIN assignments |->
        IF assignments[n][1] = name THEN <<assignments[n][2]>> ELSE <<>>])

SettingsOf(assignments) ==
    [name \in {assignments[n][1] : n \in DOMAIN assignments} |-> ValuesOf(assignments, name)]

\* The parser takes exactly the files of its grammar, and a setting has the
\* values that the file gives it, in their order (config_parser::parse and
\* config_file::insert): a value ends neither early nor late, whatever in it
\* looks like a comment, an end or another assignment.
SettingsAsWritten ==
    /\ reading = "loaded" => {SettingsOf(a) : a \in FileMeanings[1]} = {variables}
    /\ reading = "failed" => FileMeanings[1] = {}
=============================================================================
