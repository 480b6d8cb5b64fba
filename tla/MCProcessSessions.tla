--------------------------- MODULE MCProcessSessions ---------------------------
(***************************************************************************)
(* Small instances of ProcessSessions: outputs in the three formats of     *)
(* USAGE.md, with objects that are nested, hide braces in strings, have no *)
(* id, an id that is not acceptable or one that came before, and outputs   *)
(* that are malformed.                                                     *)
(***************************************************************************)
EXTENDS ProcessSessions, TLC

CONSTANTS a, b, bad, s1, s2

Between(c) == [text |-> <<c>>, object |-> FALSE]
Obj(text) == [text |-> <<"open">> \o text \o <<"close">>, object |-> TRUE]

Plain(u) == Obj(<<u>>)
Nested(u) == Obj(<<"open", "close", u>>)
\* The string of the first member is }\" .
Tricky(u) == Obj(<<"quote", "close", "backslash", "quote", "quote", u>>)

WellFormedOutputs ==
    {<<Between("["), Plain(a), Between("comma"), Nested(b), Between("]")>>,
     <<Between("space"), Tricky(a), Between("space"), Plain(bad)>>,
     <<Plain(a), Obj(<<>>)>>,
     <<Between("["), Between("]"), Between("junk")>>}

MalformedOutputs ==
    {<<Plain(a), Between("comma"), Plain(b)>>,
     <<Plain(a), Plain(a)>>,
     <<Between("["), Plain("junk"), Between("]")>>}

MCOutputs == <<WellFormedOutputs \cup MalformedOutputs, {<<Plain(b), Obj(<<>>)>>}>>
ArrayOutput == <<{<<Between("["), Plain(a), Between("comma"), Plain(b), Between("]")>>}>>
LongOutput == <<{<<Plain(a), Plain(b), Plain(a)>>}>>
MCChatter == {<<Between("junk")>>}

Simple(s) == [name |-> s, init |-> FALSE, cleanup |-> FALSE, wellFormed |-> TRUE]
Full(s) == [name |-> s, init |-> TRUE, cleanup |-> TRUE, wellFormed |-> TRUE]

MCSessionConfigs ==
    {<<Full(s1), [Simple(s2) EXCEPT !.cleanup = TRUE]>>,
     <<Full(s1), Full(s1)>>,
     <<Simple(s2), [Full(s1) EXCEPT !.wellFormed = FALSE]>>}
OneSession == {<<Simple(s1)>>}

First == [session |-> s1, identifier |-> TRUE, generator |-> FALSE]
Second == [session |-> s2, identifier |-> TRUE, generator |-> TRUE]

\* The second type may lack its identifier; what its command writes fits into
\* the pipe.
MCTypeConfigs == {<<First, Second>>, <<First, [Second EXCEPT !.identifier = FALSE]>>,
                  <<First, [Second EXCEPT !.generator = FALSE]>>}
OneType == {<<First>>}
NoIdentifier == {<<[First EXCEPT !.identifier = FALSE]>>}

\* What the theorem about LoadedIsWritten takes for granted is so in all these
\* instances.
ASSUME MCAssumption == OutputsAreWellCut
================================================================================
