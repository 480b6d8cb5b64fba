------------------------------ MODULE MCReaders ------------------------------
EXTENDS Readers

\* Templates.

Q == Text(<<"quote">>)
InLoop == For(<<"i">>, <<"email">>)
Pieces == {Q, Text(<<"comma">>), Text(<<"space", "close">>), Variable("name", FALSE),
           IterVariable("i", FALSE), InLoop, End(FALSE)}

\* "name": "${name}", "emails": [${for $i in email}"${$i}",${end}]
Contact == <<Q, Variable("name", FALSE), Q, Text(<<"comma">>), InLoop, Q, IterVariable("i", FALSE),
             Q, Text(<<"comma">>), End(FALSE), Text(<<"close">>)>>

\* A loop in a loop; the inner one may have the variable of the outer.
Nested(vars, inner) ==
    <<InLoop, For(vars, <<"phone">>), Q, IterVariable(inner, FALSE), Q, Text(<<"comma">>),
      End(FALSE), IterVariable("i", FALSE), End(FALSE), Variable("name", FALSE)>>

Userstype(cases) ==
    <<Q, Switch("name", cases, <<"other", "other">>), Q>>

Written ==
    {Contact, Nested(<<"j">>, "j"), Nested(<<"j">>, "i"), Nested(<<"i">>, "i"), Nested(<<"j">>, "k"),
     <<For(<<"i", "j">>, <<"email", "phone">>), Q, IterVariable("i", FALSE), Q, Text(<<"comma">>), Q,
       IterVariable("j", FALSE), Q, End(FALSE)>>,
     <<For(<<"i", "j">>, <<"email">>), End(FALSE)>>,
     <<InLoop, Variable("format", FALSE), End(FALSE), Q, Q>>,
     <<InLoop, IterVariable("i", FALSE), End(TRUE), Q, Q>>,
     <<SpacedFor(<<"i">>, <<"email">>), Q, IterVariable("i", FALSE), Q, End(FALSE)>>,
     <<InLoop, SpacedFor(<<"j">>, <<"phone">>), Q, Q, End(FALSE), End(FALSE), Q, Q>>,
     <<Q, Variable("name", TRUE), Q>>,
     <<Q, Variable("name", TRUE), Q, Variable("name", FALSE)>>,
     <<Q, Malformed, Q>>,
     <<InLoop, Malformed, End(FALSE), Q, Q>>,
     Userstype(<<Case({<<"other">>}, <<"other">>, TRUE)>>),
     Userstype(<<Case({}, <<"other">>, FALSE)>>)}

MCTemplates ==
    SeqOf(Pieces, 3) \cup {<<InLoop, p, q, End(FALSE)>> : p, q \in Pieces} \cup Written

MCAttributes == {"name", "email", "phone", "format"}

Harsh == <<"quote", "backslash", "control", "comma", "close">>
Values == {<<>>, <<Harsh>>, <<<<"other">>, <<"backslash">>>>}
MCSources == {[name |-> n, email |-> e, phone |-> p, format |-> <<<<"other">>>>] :
                 n \in Values \ {<<Harsh>>}, e \in Values, p \in {<<>>, <<<<"other">>, Harsh>>}}

\* Configuration files.
ConfigPieces == {<<"a", "=">>, <<"a", "=", "<", "?">>, <<"a", "blank">>, <<"#">>}
MCConfigInput ==
    SeqOf({"a", "blank", "\n", "=", "#"}, 4)
    \cup {<<"a", "=">> \o s : s \in SeqOf({"a", "blank", "\r", "\n", "#"}, 3)}
    \cup {<<"a", "=", "<", "?">> \o s : s \in SeqOf({"a", "?", ">", "\n", "#"}, 4)}
    \cup {<<"a", "=", "a", "\n">> \o s : s \in SeqOf({"a", "b", "=", "\n"}, 4)}

\* Attributes.
Student == [type |-> "Student", local_attribute |-> "member", remote_attribute |-> "dn"]
Group == [Student EXCEPT !.type = "Group"]
Anybody == [type |-> "Teacher", local_attribute |-> "", remote_attribute |-> "dn"]
X == <<"x">>
Y == <<"y">>
MCListSettings ==
    [used : {{}, {<<"name">>}, {<<"Student", "id">>, <<"name">>}},
     hidden : {<<>>, <<X>>, <<X, Comma, Space, Y>>, <<X, Space, Y>>, <<X, Comma, Y>>,
               <<X, Comma, Y, Space, X>>},
     relations : {<<>>, <<Student>>, <<Group, Anybody>>},
     transformed : {{}, {<<"dn">>}},
     readable : {TRUE}]
    \cup [used : {{}}, hidden : {<<>>}, relations : {<<>>}, transformed : {{}}, readable : {FALSE}]
MCGeneratedFrom == {NothingFrom, [types |-> {"Student", "Teacher"}, from |-> {<<"classes">>}]}
MCListTypes == {"Group", "Student", "Teacher"}
MCTypeOrder == <<"Group", "Student">>

\* Limiters.
MCLimitedTypes == {"Student", "Group"}
MCLoadable == {[uid |-> {"1"}, cn |-> {"a"}], [uid |-> {"2"}, cn |-> {"a", "b"}], [uid |-> {"3"}, cn |-> {}]}
Listed1 == [with |-> "list", list |-> "users", by |-> "cn"]
Blacklisted == [with |-> "list", list |-> "blacklist", by |-> "uid"]
Matching == [with |-> "regex", matching |-> {"a"}, by |-> "cn"]
Both(how) == <<Listed1, Matching, [with |-> how, children |-> {1, 2}]>>
OwnLimits ==
    {NoLimit, <<Listed1>>,
     not_limiter(Both("or")),
     Both("and"),
     not_limiter(Append(<<Listed1>>, [with |-> "xor"]))}
MCLimiterConfigs ==
    [limit : {("Student" :> own) @@ ("Group" :> other) @@ ("Users" :> both) @@ ("Groups" :> NoLimit) :
                 own \in OwnLimits, other \in {NoLimit, <<Listed1>>}, both \in {NoLimit, <<Matching>>}},
     endpoint : {[Student |-> "Users", Group |-> "Groups"]},
     blacklist : {NoLimit, <<Blacklisted>>}]
MCLists == {[users |-> {}, blacklist |-> {"1"}], [users |-> {"a"}, blacklist |-> {}],
            [users |-> {"b"}, blacklist |-> {"1", "2"}]}

\* Groups.  Two values that make one id, one of another group, one that does not match.
A12 == <<"1", "#", "2">>
B12 == <<"1", "2", "#">>
C34 == <<"3", "#", "4">>
Plain == <<"1", "2">>
Spec(from, kind) ==
    [from |-> from, match |-> "#", uuid |-> <<"$1", "$2">>,
     attributes |-> [kind |-> <<kind>>, unit |-> <<"$1">>]]
FromClasses == Spec("classes", "k")
FromEducation == Spec("educationGroups", "u")
Labels(matchAll) ==
    [from |-> "kind", matchAll |-> matchAll, noMatch |-> "label",
     transforms |-> <<[match |-> {<<"k">>}, to |-> "label", replace |-> <<"x">>],
                      [match |-> {<<"k">>, <<"v">>}, to |-> "label", replace |-> <<"y">>]>>]
Is(attr, v) == <<[with |-> "regex", by |-> attr, matching |-> {<<v>>}]>>
FromUsers ==
    [from_types |-> <<"Student", "Substitute", "Teacher">>, attributes |-> <<FromClasses, FromEducation>>,
     transform |-> <<>>, limit |-> NoLimit]
MCGenerateConfigs ==
    {FromUsers,
     [FromUsers EXCEPT !.limit = Is("kind", "k")],
     [FromUsers EXCEPT !.transform = <<Labels(TRUE)>>, !.limit = Is("label", "y")],
     [FromUsers EXCEPT !.transform = <<Labels(FALSE)>>, !.limit = Is("label", "y")],
     [FromUsers EXCEPT !.transform = <<Labels(FALSE)>>, !.limit = not_limiter(Is("label", "x"))],
     [FromUsers EXCEPT !.attributes = <<FromClasses, [from |-> "educationGroups", match |-> "#"]>>]}
UserValues ==
    [classes : {<<>>, <<A12>>, <<A12, B12>>, <<Plain, C34>>},
     educationGroups : {<<>>, <<B12>>, <<C34, A12>>}]
MCUserLists ==
    {("Student" :> ("s1" :> s)) @@ ("Teacher" :> (("t1" :> t) @@ ("t2" :> u))) :
         s, t \in UserValues, u \in {v \in UserValues : v.classes = <<>>}}
MCUnits == {<<"1">>, <<"3">>}
Job(id, teacher, unit) == [id |-> id, teacher |-> teacher, unit |-> <<unit>>]
MCEmploymentLists == {{}, {Job(1, "t1", "1"), Job(2, "t1", "3"), Job(3, "t2", "3"), Job(4, "t2", "5")}}

\* CSV files.
Fields == {<<>>, <<"x">>, <<"quote">>, <<"separator", "x">>, <<"\n">>}
MCTable ==
    {<<<<<<"x">>>>, <<f>>>> : f \in Fields}
    \cup {<<<<<<"x">>, <<"y">>>>, <<f, g>>>> : f \in Fields, g \in Fields}
MCCsvInput ==
    SeqOf({"x", "quote", "separator", "\n"}, 5) \cup SeqOf({"bom", "x", "\r", "\n"}, 4)
    \cup SeqOf({"bom", "x", "quote", "\n"}, 4)
    \cup UNION {Writings(table) : table \in MCTable}

\* Cache files.
Strings == {<<>>, <<11>>, <<11, 12>>}
MCRendered == SeqOf({<<<<11>>, <<12>>, s>> : s \in Strings}, 3)
Attributes == {<<<<13>>, values>> : values \in {<<>>, <<<<11>>>>, <<<<>>, <<11>>>>}}
MCUnrendered == SeqOf({<<<<11>>, <<12>>, a>> : a \in SeqOf(Attributes, 2)}, 2)
=============================================================================
