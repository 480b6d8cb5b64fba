------------------------------ MODULE Templates ------------------------------
(***************************************************************************)
(* How one object becomes JSON.  When the configuration is read, the       *)
(* attributes that a template uses are found (json_template_parser.cpp)    *)
(* and, with the hidden attributes, become the ones that the data source   *)
(* is asked for (config_file::load_template).  Later the template is       *)
(* interpreted over an object (scim_json_parse.cpp), and what comes out is *)
(* verified to be JSON once for every type (renderer.cpp).                 *)
(*                                                                         *)
(* A template is a sequence of tokens: text, ${a}, ${|a}, ${$i},           *)
(* ${switch ...}, ${for ...}, ${end} and what is none of these.  Text and  *)
(* values are sequences of the characters that are told apart: the quote,  *)
(* the backslash, a control character, the comma, white space, a closing   *)
(* bracket and any other.                                                  *)
(***************************************************************************)
EXTENDS Naturals, Sequences, FiniteSets, SequencesExt

CONSTANTS
    Attribute,       \* attributes of the objects
    IterName,        \* names of iteration variables
    Template,        \* templates
    Source,          \* objects as the data source has them, [Attribute -> Seq(values)]
    HiddenAttributes \* <type>-hidden-attributes

VARIABLES
    rendering,          \* how far the program has come
    json,               \* the template
    source,             \* the object in the data source
    scim_variables,     \* <type>-scim-variables
    user,               \* the object as it was loaded
    escape_by_default,
    verified,           \* verified_types has the type
    j_iter,             \* the next token
    iteration_stack,    \* loops that are open, innermost first
    output_string

templateVars == <<rendering, json, source, scim_variables, user, escape_by_default, verified,
                  j_iter, iteration_stack, output_string>>

Char == {"quote", "backslash", "control", "comma", "space", "close", "other"}

-----------------------------------------------------------------------------
\* Tokens.

Text(chars) == [kind |-> "text", chars |-> chars]

\* ${name}, ${|name}: an attribute.  ${$name}, ${|$name}: an iteration variable.
Variable(name, bar) == [kind |-> "var", iter |-> FALSE, name |-> name, bar |-> bar]
IterVariable(name, bar) == [kind |-> "var", iter |-> TRUE, name |-> name, bar |-> bar]

\* ${switch name case ... default: ...}.  The string or regular expression of a
\* case is the set of the values it matches; a case of which parse_case makes
\* nothing (an empty string, a malformed expression) is not ok.
Case(match, value, ok) == [match |-> match, value |-> value, ok |-> ok]
Switch(name, cases, default) ==
    [kind |-> "switch", iter |-> FALSE, name |-> name, cases |-> cases, default |-> default]

\* ${for $vars in attrs}, or with white space before the word.
For(vars, attrs) == [kind |-> "for", vars |-> vars, attrs |-> attrs, spaced |-> FALSE]
SpacedFor(vars, attrs) == [For(vars, attrs) EXCEPT !.spaced = TRUE]

\* ${end}, or with white space in it.
End(spaced) == [kind |-> "end", spaced |-> spaced]

\* What is between the braces is none of these, and does not begin with "for".
Malformed == [kind |-> "malformed"]

\* A loop has at least one variable and one attribute.
Token ==
    [kind : {"text"}, chars : Seq(Char)]
    \cup [kind : {"var"}, iter : {FALSE}, name : Attribute, bar : BOOLEAN]
    \cup [kind : {"var"}, iter : {TRUE}, name : IterName, bar : BOOLEAN]
    \cup [kind : {"switch"}, iter : {FALSE}, name : Attribute, default : Seq(Char),
          cases : Seq([match : SUBSET Seq(Char), value : Seq(Char), ok : BOOLEAN])]
    \cup [kind : {"for"}, vars : Seq(IterName) \ {<<>>}, attrs : Seq(Attribute) \ {<<>>},
          spaced : BOOLEAN]
    \cup [kind : {"end"}, spaced : BOOLEAN]
    \cup {Malformed}

ASSUME TemplateAssumption ==
    Template \subseteq Seq(Token) /\ Source \subseteq [Attribute -> Seq(Seq(Char))]

Tokens(kind) == {n \in DOMAIN json : json[n].kind = kind}

-----------------------------------------------------------------------------
\* Which attributes are asked for.

\* Mutated form: loops are taken for ends and unknown sequences.
find_variables_NoLoops(template) ==
    {template[n].name : n \in {k \in DOMAIN template :
        template[k].kind \in {"var", "switch"} /\ ~template[k].iter
        /\ (template[k].kind = "var" => ~template[k].bar)}}

\* The regular expressions know no |, and no iteration variable.
find_variables(template) ==
    LET named == {n \in DOMAIN template :
                     \/ template[n].kind = "switch" /\ ~template[n].iter
                     \/ template[n].kind = "var" /\ ~template[n].iter /\ ~template[n].bar}
        loops == {n \in DOMAIN template : template[n].kind = "for"}
    IN  {template[n].name : n \in named} \cup UNION {Range(template[n].attrs) : n \in loops}

load_template ==
    /\ rendering = "load_template"
    /\ scim_variables' = find_variables(json) \cup HiddenAttributes
    /\ rendering' = "fetch"
    /\ UNCHANGED <<json, source, user, escape_by_default, verified, j_iter, iteration_stack,
                   output_string>>

\* LDAP gives the attributes it is asked for; a table has all its columns.
Fetch ==
    /\ rendering = "fetch"
    /\ \/ user' = [a \in Attribute |-> IF a \in scim_variables THEN source[a] ELSE <<>>]
       \/ user' = source
    /\ rendering' = "parse"
    /\ UNCHANGED <<json, source, scim_variables, escape_by_default, verified, j_iter,
                   iteration_stack, output_string>>

-----------------------------------------------------------------------------
\* The characters of what is written.

\* Mutated form: only quotes are escaped.
json_string_escape_Quotes(value) ==
    FlattenSeq([n \in DOMAIN value |->
        IF value[n] = "quote" THEN <<"backslash", "quote">> ELSE <<value[n]>>])

json_string_escape(value) ==
    FlattenSeq([n \in DOMAIN value |->
        CASE value[n] = "quote"     -> <<"backslash", "quote">>
          [] value[n] = "backslash" -> <<"backslash", "backslash">>
          [] value[n] = "control"   -> <<"backslash", "other">>
          [] OTHER                  -> <<value[n]>>])

\* Where the literal that has place n in it ends, or one past the end.
ClosingQuote(s, n) ==
    LET closing[m \in 1..Len(s) + 2] ==
            IF m > Len(s) THEN Len(s) + 1
            ELSE CASE s[m] = "quote"     -> m
                   [] s[m] = "backslash" -> closing[m + 2]
                   [] OTHER              -> closing[m + 1]
    IN  closing[n]

SkipSpace(s, n) == Min({m \in n..Len(s) + 1 : m > Len(s) \/ s[m] # "space"})

\* The places from n on of the commas that come before a closing bracket.
TrailingFrom(s, n) ==
    LET trailing[m \in 1..Len(s) + 2] ==
            IF m > Len(s) THEN {}
            ELSE CASE s[m] = "quote" -> trailing[ClosingQuote(s, m + 1) + 1]
                   [] s[m] = "comma" ->
                        LET walker == SkipSpace(s, m + 1)
                        IN  (IF walker <= Len(s) /\ s[walker] = "close" THEN {m} ELSE {})
                            \cup trailing[m + 1]
                   [] OTHER          -> trailing[m + 1]
    IN  trailing[n]

\* They become spaces.
remove_trailing_commas(s) ==
    [n \in DOMAIN s |-> IF n \in TrailingFrom(s, 1) THEN "space" ELSE s[n]]

-----------------------------------------------------------------------------
\* Interpreting the template.

Here == json[j_iter]

ParserFails ==
    /\ rendering' = "failed"
    /\ UNCHANGED <<j_iter, iteration_stack, output_string>>

Write(chars) ==
    /\ output_string' = output_string \o chars
    /\ j_iter' = j_iter + 1
    /\ UNCHANGED <<rendering, iteration_stack>>

\* One round of a loop: the value that an iteration variable has in it.
NthOrEmpty(values, n) == IF n < Len(values) THEN values[n + 1] ELSE <<>>

\* What get_value comes to for an iteration variable.  In a loop that does not
\* have the variable the code reads through the end iterator of a map: it goes
\* on to the next outer loop, or dies.
InLoops(stack, name) ==
    LET having == {n \in DOMAIN stack : name \in DOMAIN stack[n].values}
        passed == {n \in DOMAIN stack : \A m \in having : n < m}
        found  == IF having = {} THEN [result |-> "missing", value |-> <<>>]
                  ELSE LET iter == stack[Min(having)]
                       IN  [result |-> "value", value |-> NthOrEmpty(iter.values[name], iter.idx)]
    IN  {found} \cup {[result |-> "crash", value |-> <<>>] : n \in passed}

get_value(token) ==
    IF token.iter THEN InLoops(iteration_stack, token.name)
    ELSE IF user[token.name] = <<>> THEN {[result |-> "missing", value |-> <<>>]}
    ELSE {[result |-> "value", value |-> Head(user[token.name])]}

ValueMissing(value) == value.result = "missing" /\ ParserFails

Crashes(value) ==
    /\ value.result = "crash"
    /\ rendering' = "crashed"
    /\ UNCHANGED <<j_iter, iteration_stack, output_string>>

copy_char == Here.kind = "text" /\ Write(Here.chars)

replacement_simple ==
    /\ Here.kind = "var"
    /\ \E value \in get_value(Here) :
          \/ ValueMissing(value)
          \/ Crashes(value)
          \/ /\ value.result = "value"
             /\ Write(IF escape_by_default # Here.bar THEN json_string_escape(value.value)
                      ELSE value.value)

\* The first case that matches, or the default.
Chosen(token, value) ==
    LET matching == {n \in DOMAIN token.cases : value \in token.cases[n].match}
    IN  IF matching = {} THEN token.default ELSE token.cases[Min(matching)].value

replacement_conditional ==
    /\ Here.kind = "switch"
    /\ \E value \in get_value(Here) :
          \/ ValueMissing(value)
          \/ Crashes(value)
          \/ /\ value.result = "value"
             /\ IF \A n \in DOMAIN Here.cases : Here.cases[n].ok
                THEN Write(Chosen(Here, value.value))
                ELSE ParserFails

\* The texts that skip_iter looks for: "${for", whatever follows, and "${end}".
LooksLikeFor(token) ==
    \/ token.kind = "for" /\ ~token.spaced
    \/ token.kind = "var" /\ ~token.bar /\ ~token.iter /\ token.name = "format"
LooksLikeEnd(token) == token.kind = "end" /\ ~token.spaced

\* Mutated form: loops within the skipped one are not counted.
SkipFrom_Flat(n, depth) ==
    LET ends == {k \in n..Len(json) : LooksLikeEnd(json[k])}
    IN  IF ends = {} THEN Len(json) + 2 ELSE Min(ends) + 1

\* The place after the end that closes the skipped loop, or two past the end.
SkipFrom(n, depth) ==
    LET from[m \in 1..Len(json) + 1] == [d \in Nat \ {0} |->
            IF m > Len(json) THEN Len(json) + 2
            ELSE CASE LooksLikeFor(json[m]) -> from[m + 1][d + 1]
                   [] LooksLikeEnd(json[m]) -> IF d = 1 THEN m + 1 ELSE from[m + 1][d - 1]
                   [] OTHER                 -> from[m + 1][d]]
    IN  from[n][depth]

skip_iter ==
    LET place == SkipFrom(j_iter + 1, 1)
    IN  IF place > Len(json) + 1 THEN ParserFails
        ELSE j_iter' = place /\ UNCHANGED <<rendering, iteration_stack, output_string>>

\* The values of a loop's variables: the first of two with one name counts.
LoopValues(token, object) ==
    [v \in Range(token.vars) |->
        object[token.attrs[Min({n \in DOMAIN token.vars : token.vars[n] = v})]]]

Rounds(values) == Max({Len(values[v]) : v \in DOMAIN values})

iter_start ==
    /\ Here.kind = "for"
    /\ IF Len(Here.vars) # Len(Here.attrs) THEN ParserFails
       ELSE LET values == LoopValues(Here, user)
            IN  IF Rounds(values) = 0 THEN skip_iter
                ELSE /\ iteration_stack' = <<[values |-> values, idx |-> 0, max |-> Rounds(values),
                                              reset |-> j_iter + 1]>> \o iteration_stack
                     /\ j_iter' = j_iter + 1
                     /\ UNCHANGED <<rendering, output_string>>

\* Mutated form: one round too many.
NextRound_OneMore(iter) == iter.idx < iter.max

\* more(), after the step.
NextRound(iter) == iter.idx + 1 < iter.max

iter_end ==
    /\ Here.kind = "end"
    /\ IF iteration_stack = <<>> THEN ParserFails
       ELSE LET iter == Head(iteration_stack)
            IN  /\ IF NextRound(iter)
                   THEN /\ iteration_stack' = [iteration_stack EXCEPT ![1].idx = @ + 1]
                        /\ j_iter' = iter.reset
                   ELSE /\ iteration_stack' = Tail(iteration_stack)
                        /\ j_iter' = j_iter + 1
                /\ UNCHANGED <<rendering, output_string>>

NoReplacement == Here.kind = "malformed" /\ ParserFails

parse ==
    /\ rendering = "parse"
    /\ j_iter <= Len(json)
    /\ \/ copy_char
       \/ replacement_simple
       \/ replacement_conditional
       \/ iter_start
       \/ iter_end
       \/ NoReplacement
    /\ UNCHANGED <<json, source, scim_variables, user, escape_by_default, verified>>

EndOfTemplate ==
    /\ rendering = "parse"
    /\ j_iter > Len(json)
    /\ IF iteration_stack = <<>>
       THEN /\ output_string' = remove_trailing_commas(output_string)
            /\ rendering' = "verify"
            /\ UNCHANGED <<j_iter, iteration_stack>>
       ELSE ParserFails
    /\ UNCHANGED <<json, source, scim_variables, user, escape_by_default, verified>>

-----------------------------------------------------------------------------
\* JSON.

\* Outside of literals, in one, or in one after a backslash.
AfterChar(state, char) ==
    IF state = "escape" THEN "in"
    ELSE CASE char = "quote"     -> IF state = "in" THEN "out" ELSE "in"
           [] char = "backslash" -> IF state = "in" THEN "escape" ELSE "out"
           [] OTHER              -> state

Before(s, n) == FoldLeft(AfterChar, "out", SubSeq(s, 1, n - 1))

\* The comma at place n is followed by a closing bracket.
Trails(s, n) ==
    /\ s[n] = "comma"
    /\ \E m \in n+1..Len(s) : s[m] = "close" /\ \A k \in n+1..m-1 : s[k] = "space"
    /\ Before(s, n) = "out"

\* What a JSON parser refuses, of what is told apart here.
IsJson(s) ==
    /\ Before(s, Len(s) + 1) = "out"
    /\ \A n \in DOMAIN s :
          /\ s[n] = "control" => Before(s, n) = "out"
          /\ s[n] = "backslash" => Before(s, n) # "out"
          /\ ~Trails(s, n)

verify_json ==
    /\ rendering = "verify"
    /\ IF output_string # <<>> /\ (verified \/ IsJson(output_string))
       THEN rendering' = "rendered" /\ verified' = TRUE
       ELSE rendering' = "failed" /\ UNCHANGED verified
    /\ UNCHANGED <<json, source, scim_variables, user, escape_by_default, j_iter,
                   iteration_stack, output_string>>

-----------------------------------------------------------------------------

TemplatesIdle ==
    /\ rendering = "idle"
    /\ json = <<>> /\ source = <<>> /\ scim_variables = {} /\ user = <<>>
    /\ escape_by_default = FALSE /\ verified = FALSE
    /\ j_iter = 1 /\ iteration_stack = <<>> /\ output_string = <<>>

TemplatesInit ==
    /\ rendering = "load_template"
    /\ json \in Template
    /\ source \in Source
    /\ scim_variables = {}
    /\ user = <<>>
    /\ escape_by_default \in BOOLEAN
    /\ verified \in BOOLEAN
    /\ j_iter = 1 /\ iteration_stack = <<>> /\ output_string = <<>>

TemplatesNext == load_template \/ Fetch \/ parse \/ EndOfTemplate \/ verify_json

TemplatesSpec == TemplatesInit /\ [][TemplatesNext]_templateVars

-----------------------------------------------------------------------------
\* What a template means for an object (doc/JSON-REPLACEMENT-RULES.md): the set
\* of its one result, or the empty set when it has none.

\* The end that closes the loop whose body has place m, or one past the end.  A
\* loop within the body is passed as a whole.
Closing[m \in 1..Len(json) + 1] ==
    IF m > Len(json) \/ json[m].kind = "end" THEN m
    ELSE IF json[m].kind # "for" THEN Closing[m + 1]
    ELSE IF Closing[m + 1] > Len(json) THEN Len(json) + 1
    ELSE Closing[Closing[m + 1] + 1]

\* What the iteration variables are: each the set of its one value, or the empty set.
Env == [IterName -> SUBSET Seq(Char)]
NoLoop == [v \in IterName |-> {}]

\* In a round of a loop.
Bound(env, token, object, n) ==
    LET values == LoopValues(token, object)
    IN  [v \in IterName |->
            IF v \in DOMAIN values THEN {NthOrEmpty(values[v], n - 1)} ELSE env[v]]

Then(first, second) == {f \o s : f \in first, s \in second}

\* One after the other, from each of them on.
InTurn(results) ==
    LET from[n \in 1..Len(results) + 1] ==
            IF n > Len(results) THEN {<<>>} ELSE Then(results[n], from[n + 1])
    IN  from

ValueOf(token, object, env) ==
    IF token.iter THEN env[token.name]
    ELSE IF object[token.name] = <<>> THEN {} ELSE {object[token.name][1]}

\* A token other than a loop.
Spelled(token, object, env) ==
    CASE token.kind = "text" -> {token.chars}
      [] token.kind = "var" ->
            {IF escape_by_default # token.bar THEN json_string_escape(v) ELSE v :
                v \in ValueOf(token, object, env)}
      [] token.kind = "switch" /\ (\A n \in DOMAIN token.cases : token.cases[n].ok) ->
            {Chosen(token, v) : v \in ValueOf(token, object, env)}
      [] OTHER -> {}

\* From a place to where the loop that it is in is closed, or to the end.
Meaning(object) ==
    LET from[m \in 1..Len(json) + 1] == [env \in Env |->
            IF m > Len(json) \/ json[m].kind = "end" THEN {<<>>}
            ELSE IF json[m].kind # "for"
            THEN Then(Spelled(json[m], object, env), from[m + 1][env])
            ELSE IF Len(json[m].vars) # Len(json[m].attrs) \/ Closing[m + 1] > Len(json) THEN {}
            ELSE LET rounds == [n \in 1..Rounds(LoopValues(json[m], object)) |->
                                   from[m + 1][Bound(env, json[m], object, n)]]
                 IN  Then(InTurn(rounds)[1], from[Closing[m + 1] + 1][env])]
    IN  from

NoTrailingCommas(s) == [n \in DOMAIN s |-> IF Trails(s, n) THEN "space" ELSE s[n]]

\* There is no end that closes no loop.
Result(object) ==
    {NoTrailingCommas(s) :
        s \in IF Closing[1] > Len(json) THEN Meaning(object)[1][NoLoop] ELSE {}}

-----------------------------------------------------------------------------
\* Properties.

\* Every attribute is asked for: the ones written with | only are not.
AsksForAll ==
    \A n \in Tokens("var") :
        ~json[n].iter /\ json[n].bar => json[n].name \in find_variables(json) \cup HiddenAttributes

\* Loops are written so that skip_iter finds them and nothing else: no white space
\* in "${for" and "${end}", and no attribute whose name begins with "for".
PlainLoops ==
    /\ \A n \in Tokens("for") \cup Tokens("end") : ~json[n].spaced
    /\ \A n \in Tokens("var") : ~LooksLikeFor(json[n])

\* However loops are nested, skipped and repeated, what is rendered is what the
\* template means for the object in the data source, and rendering fails where
\* it means nothing (scim_json_parser, load_template, remove_trailing_commas).
\* It holds of templates whose loops are written plainly (PlainLoops: skip_iter
\* does not see "${ for" or "${end }", which parse_replacement takes, and takes
\* "${format}" for a loop) and whose attributes are asked for (AsksForAll: one
\* written with | only is not); a crash is LoopsNest's.
RenderedAsMeant ==
    /\ AsksForAll /\ PlainLoops /\ rendering \in {"verify", "rendered"} =>
          Result(source) = {output_string}
    /\ AsksForAll /\ PlainLoops /\ rendering = "failed" =>
          ~\E result \in Result(source) : result # <<>> /\ IsJson(result)

\* Loops are written plainly, and all values are escaped and stand in string
\* literals, whose quotes are written alone.
QuotedAndEscaped ==
    LET Quotes(n) == Cardinality({k \in 1..n-1 : json[k] = Text(<<"quote">>)})
    IN  /\ PlainLoops
        /\ \A n \in Tokens("text") :
              json[n] = Text(<<"quote">>) \/ Range(json[n].chars) \cap {"quote", "backslash"} = {}
        /\ \A n \in Tokens("var") : escape_by_default # json[n].bar /\ Quotes(n) % 2 = 1
        /\ \A n \in Tokens("for") \cup Tokens("end") : Quotes(n) % 2 = 0
        /\ Tokens("switch") = {}

\* The first object of a type that was verified speaks for the others
\* (renderer::verify_json): when values are quoted and escaped, whatever is in
\* them, an object renders to JSON if one with empty values does.
VerifiedOnceIsEnough ==
    rendering = "rendered" /\ QuotedAndEscaped =>
        LET blank == [a \in Attribute |-> [n \in DOMAIN user[a] |-> <<>>]]
        IN  (\A s \in Result(blank) : IsJson(s)) => IsJson(output_string)

\* "Iterative variable replacements can also be nested"
\* (doc/JSON-REPLACEMENT-RULES.md): no template makes the program die.
LoopsNest == rendering # "crashed"
=============================================================================
