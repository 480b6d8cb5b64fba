----------------------------- MODULE JsonSplitter -----------------------------
(***************************************************************************)
(* How the bytes an external process writes become objects                 *)
(* (external_process_load.cpp): json_array_splitter cuts the stream into   *)
(* the texts of single objects by counting braces, json_parser_sink makes  *)
(* an object of each text and adds it to the list of its type.             *)
(*                                                                         *)
(* A byte is one of the characters the splitter tells apart, "open" and    *)
(* "close" the braces; an id stands for the member of an object that is    *)
(* its unique identifier, "junk" for whatever makes the text something     *)
(* other than JSON.                                                        *)
(***************************************************************************)
EXTENDS Integers, SequencesExt

CONSTANTS
    Id,                  \* the unique identifiers that objects may have
    Acceptable,          \* the ids that discard-objects-with-bad-uuids lets through
    ignore_dups          \* the setting ignore-duplicate-uuids

ASSUME SplitterAssumption ==
    /\ Acceptable \subseteq Id
    /\ ignore_dups \in BOOLEAN

Byte == {"[", "]", "open", "close", "comma", "quote", "backslash", "space", "junk"} \cup Id

SplitterState ==
    [failed: BOOLEAN, seen_first_char: BOOLEAN, is_array: BOOLEAN, done: BOOLEAN,
     in_string: BOOLEAN, escape_next: BOOLEAN, brace_depth: Int,
     current_object: Seq(Byte)]

NewSplitter ==
    [failed |-> FALSE, seen_first_char |-> FALSE, is_array |-> FALSE, done |-> FALSE,
     in_string |-> FALSE, escape_next |-> FALSE, brace_depth |-> 0,
     current_object |-> <<>>]

incomplete(s) == s.brace_depth # 0

Opened(s) == [s EXCEPT !.brace_depth = 1, !.current_object = <<"open">>]

FirstByte(s, c) ==
    LET seen == [s EXCEPT !.seen_first_char = TRUE] IN
    CASE c = "space" -> s
      [] c = "["     -> [seen EXCEPT !.is_array = TRUE]
      [] c = "open"  -> Opened(seen)
      [] OTHER       -> [seen EXCEPT !.failed = TRUE]

ByteBetweenObjects(s, c) ==
    CASE c = "space"                -> s
      [] s.is_array /\ c = "comma"  -> s
      [] s.is_array /\ c = "]"      -> [s EXCEPT !.done = TRUE]
      [] c = "open"                 -> Opened(s)
      [] OTHER                      -> [s EXCEPT !.failed = TRUE]

ByteInString(s, c) ==
    IF s.escape_next THEN [s EXCEPT !.escape_next = FALSE]
    ELSE [s EXCEPT !.escape_next = (c = "backslash"), !.in_string = (c # "quote")]

ByteInObject(s, c) ==
    LET closed == [s EXCEPT !.brace_depth = @ - 1] IN
    CASE c = "quote" -> [s EXCEPT !.in_string = TRUE]
      [] c = "open"  -> [s EXCEPT !.brace_depth = @ + 1]
      [] c = "close" -> IF closed.brace_depth = 0
                        THEN [closed EXCEPT !.current_object = <<>>] ELSE closed
      [] OTHER       -> s

SplitterByte(s, c) ==
    LET kept == [s EXCEPT !.current_object = Append(@, c)] IN
    IF s.failed \/ s.done THEN s
    ELSE IF ~s.seen_first_char THEN FirstByte(s, c)
    ELSE IF s.brace_depth = 0 THEN ByteBetweenObjects(s, c)
    ELSE IF s.in_string THEN ByteInString(kept, c)
    ELSE ByteInObject(kept, c)

\* c closes the outermost brace: the text kept so far goes to the inner sink.
CompletesObject(s, c) ==
    /\ ~s.failed /\ ~s.done /\ s.seen_first_char
    /\ s.brace_depth = 1 /\ ~s.in_string /\ c = "close"

\* identifier, generator: the settings <type>-unique-identifier and
\* <type>-UUID-generator are there.  thrown: the string exception of a missing
\* setting, which the sink's catch of std::exception lets through.
ParserState == [objects: SUBSET Id, failed: BOOLEAN, thrown: BOOLEAN,
                identifier: BOOLEAN, generator: BOOLEAN]

NewParser(identifier, generator) ==
    [objects |-> {}, failed |-> FALSE, thrown |-> FALSE,
     identifier |-> identifier, generator |-> generator]

IdsIn(text) == {text[i] : i \in DOMAIN text} \cap Id
IsJson(text) == "junk" \notin {text[i] : i \in DOMAIN text}

\* Mutant: bad ids are only warned about.
ParserWrite_KeepsBadIds(p, text) ==
    [p EXCEPT !.objects = @ \cup IdsIn(text), !.thrown = ~p.identifier,
              !.failed = @ \/ ~IsJson(text) \/ (p.generator /\ IdsIn(text) = {})]

\* What json_parser_sink::write does, in its order: parse the text, find its id
\* or generate it, look for it among the objects, add it.
ParserWrite(p, text) ==
    LET ids == IdsIn(text) IN
    IF p.failed THEN p
    ELSE IF ~IsJson(text) THEN [p EXCEPT !.failed = TRUE]
    ELSE IF ~p.identifier THEN [p EXCEPT !.thrown = TRUE]
    ELSE IF (p.generator /\ ids = {}) \/ (~ignore_dups /\ ids \cap p.objects # {})
         THEN [p EXCEPT !.failed = TRUE]
    ELSE [p EXCEPT !.objects = @ \cup (ids \cap Acceptable)]

\* A stdout_sink: the splitter and the parser it writes to, or the null_sink
\* that init and cleanup commands are given.
SinkState == [null: BOOLEAN, splitter: SplitterState, parser: ParserState]

NewSink(identifier, generator) ==
    [null |-> FALSE, splitter |-> NewSplitter, parser |-> NewParser(identifier, generator)]
NullSink == [NewSink(TRUE, FALSE) EXCEPT !.null = TRUE]

\* One byte through both; a string exception ends the write.
SinkByte(sink, c) ==
    IF sink.null \/ sink.parser.thrown THEN sink
    ELSE [sink EXCEPT
             !.splitter = SplitterByte(@, c),
             !.parser = IF CompletesObject(sink.splitter, c)
                        THEN ParserWrite(@, Append(sink.splitter.current_object, c))
                        ELSE @]

\* json_array_splitter::write of one buffer.
SinkWrite(sink, bytes) == FoldLeft(SinkByte, sink, bytes)
================================================================================
