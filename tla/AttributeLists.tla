--------------------------- MODULE AttributeLists ---------------------------
(***************************************************************************)
(* Which attributes LDAP is asked for.  When the configuration is loaded,  *)
(* each type with a <type>-scim-conf file adds the attributes that it uses *)
(* to lists of attributes, of its own, of the types that it is related to  *)
(* and of all types together (config_file::load_templates).  The LDAP      *)
(* wrapper makes one text of the last (ldap_wrapper.cpp), and the          *)
(* parser of such texts makes attributes of it again                       *)
(* (simplescim_ldap_attrs_parser.cpp).                                     *)
(*                                                                         *)
(* A name is <<attribute>> or <<type, attribute>>, and <<>> if it is empty.*)
(* A text is a sequence of names, commas and blanks, in which a name is    *)
(* next to no other.                                                       *)
(***************************************************************************)
EXTENDS Naturals, Sequences, FiniteSets, SequencesExt

CONSTANTS
    ListTypes,       \* the types that settings speak of
    GeneratedFrom,   \* what groups may be generated from: [types, from], sets of types and names
    TypeOrder,       \* types with a <type>-scim-conf, in the order of the settings
    ListSettings     \* the settings of a type: the names in its template (used), the text of its
                     \* hidden attributes, its relations, the names of the attributes that are
                     \* transformed, and whether its file can be read

Comma == <<",">>
Space == <<" ">>

IsName(name) ==
    /\ name \in Seq(STRING) /\ Len(name) \in {1, 2}
    /\ \A n \in DOMAIN name : name[n] \notin {"", ",", " "}
    /\ Len(name) = 2 => name[1] \in ListTypes

IsAttribute(attribute) == attribute = "" \/ IsName(<<attribute>>)

IsText(text) ==
    /\ \A n \in DOMAIN text : text[n] \in {Comma, Space} \/ IsName(text[n])
    /\ \A n \in DOMAIN text \ {1} : text[n - 1] \in {Comma, Space} \/ text[n] \in {Comma, Space}

ASSUME ListAssumption ==
    /\ TypeOrder \in Seq(ListTypes)
    /\ \A g \in GeneratedFrom :
          /\ g.types \subseteq ListTypes
          /\ IsFiniteSet(g.from)
          /\ \A name \in g.from : IsName(name) /\ Len(name) = 1
    /\ \A s \in ListSettings :
          /\ IsFiniteSet(s.used) /\ IsFiniteSet(s.transformed)
          /\ \A name \in s.used \cup s.transformed : IsName(name)
          /\ s.hidden \in Seq(Seq(STRING)) /\ IsText(s.hidden)
          /\ s.relations \in Seq([type : ListTypes, local_attribute : STRING,
                                    remote_attribute : STRING])
          /\ \A n \in DOMAIN s.relations : /\ IsAttribute(s.relations[n].local_attribute)
                                           /\ IsAttribute(s.relations[n].remote_attribute)

VARIABLES
    loadingLists,    \* "templates", "ldap", "done" or "failed"
    settings,        \* [type -> its settings]
    generate_from,   \* the types and the names of the attributes that groups are generated from
    next,            \* the type that is loaded next
    scim_variables_of, \* [type or "all" -> the names in its list]
    attrs            \* what LDAP is asked for

listVars == <<loadingLists, settings, generate_from, next, scim_variables_of, attrs>>

-----------------------------------------------------------------------------
\* Texts.

\* The text is cut at blanks, and each piece at its first comma.  The last piece
\* keeps its commas: it is a name then that there is not.
string_to_vector(text) ==
    LET starts == {1} \cup {n + 1 : n \in {k \in DOMAIN text : text[k] = Space}}
        StopOf(n) == Min({m \in n..Len(text) + 1 : m > Len(text) \/ text[m] = Space})
        Piece(n) == SubSeq(text, n, StopOf(n) - 1)
        Cut(piece) == IF piece = <<>> \/ piece[1] = Comma THEN <<>> ELSE piece[1]
        Rest(piece) == IF Len(piece) = 1 THEN piece[1] ELSE FlattenSeq(piece)
    IN  IF text = <<>> THEN {}
        ELSE {IF StopOf(n) > Len(text) THEN Rest(Piece(n)) ELSE Cut(Piece(n)) : n \in starts}

\* What is written in a list: its names.
Listed(text) == {text[n] : n \in DOMAIN text} \ {Comma, Space}

\* Names are separated by a comma and blanks after it, or by blanks.
Tidy(text) ==
    /\ \A n \in DOMAIN text : text[n] = Comma => n < Len(text) /\ text[n+1] = Space
    /\ \A n \in DOMAIN text : text[n] = Comma => n > 1 /\ text[n-1] \notin {Comma, Space}

-----------------------------------------------------------------------------
\* config_file.

\* (An empty name, which no attribute has, is left out of the lists.)
add_variables(added) ==
    scim_variables_of' = [list \in DOMAIN scim_variables_of |->
                             scim_variables_of[list] \cup (added[list] \ {<<>>, <<"">>})]

\* Mutated form: related types do not learn of it.
RelationNeeds_Local(relation, list) == IF list = "all" THEN {<<relation.remote_attribute>>} ELSE {}

\* The names that a relation adds to a list.
RelationNeeds(relation, list) ==
    IF list \in {relation.type, "all"} THEN {<<relation.remote_attribute>>} ELSE {}

\* The names that one type uses itself.
NamesOf(s) ==
    (s.used \cup string_to_vector(s.hidden) \cup s.transformed
     \cup {<<s.relations[n].local_attribute>> : n \in DOMAIN s.relations})
    \ {<<>>, <<"">>}

HasComma(name) == \E n \in DOMAIN name : name[n] = ","

\* A name with a type in it is an attribute of that type.
ForeignKey(name, list) ==
    IF Len(name) = 2 /\ ~HasComma(name) /\ name[1] = list THEN {<<name[2]>>} ELSE {}

\* What one type adds to a list.
load_template_of(type, list) ==
    LET s == settings[type]
    IN  (UNION {RelationNeeds(s.relations[n], list) : n \in DOMAIN s.relations})
        \cup (UNION {ForeignKey(name, list) : name \in NamesOf(s)})
        \cup (IF list \in {type, "all"} THEN NamesOf(s) ELSE {})

load_templates ==
    /\ loadingLists = "templates"
    /\ next <= Len(TypeOrder)
    /\ settings[TypeOrder[next]].readable
    /\ add_variables([list \in DOMAIN scim_variables_of |-> load_template_of(TypeOrder[next], list)])
    /\ next' = next + 1
    /\ UNCHANGED <<loadingLists, settings, generate_from, attrs>>

\* The file is missing or has a syntax error: the client exits.
TemplateFails ==
    /\ loadingLists = "templates"
    /\ next <= Len(TypeOrder)
    /\ ~settings[TypeOrder[next]].readable
    /\ loadingLists' = "failed"
    /\ UNCHANGED <<settings, generate_from, next, scim_variables_of, attrs>>

\* What groups are generated from is in no template.
add_scim_vars_for_virtual_groups ==
    /\ loadingLists = "templates"
    /\ next > Len(TypeOrder)
    /\ add_variables([list \in DOMAIN scim_variables_of |->
                         IF list \in generate_from.types \/ (list = "all" /\ generate_from.types # {})
                         THEN generate_from.from ELSE {}])
    /\ loadingLists' = "ldap"
    /\ UNCHANGED <<settings, generate_from, next, attrs>>

-----------------------------------------------------------------------------
\* The LDAP wrapper.  (A setting ldap-attrs, which no document names, is taken
\* to be missing.)

\* get_vector reads the list again, which cuts a name at its comma (but for the
\* last of all, which is not told apart here); string_to_pair leaves out the type.
LdapName(name) == <<IF HasComma(name) THEN name[1] ELSE name[Len(name)]>>

\* The text: the names, with a comma between two.
ldap_attrs ==
    LET Joined(name, text) == IF text = <<>> THEN <<name>> ELSE text \o <<Comma, name>>
    IN  FoldSet(Joined, <<>>, {LdapName(name) : name \in scim_variables_of["all"]})

\* One attribute: what is between two commas, without the blanks around it.
parse_attr(text, from, to) == {n \in from..to : text[n] # Space}

\* The attributes of a text, {} for a text that is refused: one with an empty
\* attribute, or two of them without a comma.
simplescim_ldap_attrs_parser(text) ==
    LET ends == {n \in 1..Len(text) + 1 : n > Len(text) \/ text[n] = Comma}
        StartOf(n) == Max({0} \cup {m \in ends : m < n}) + 1
    IN  IF \A n \in ends : Cardinality(parse_attr(text, StartOf(n), n - 1)) = 1
        THEN Listed(text) ELSE {}

\* Without any names the setting is missing, which is an exception.
AskForAttributes ==
    /\ loadingLists = "ldap"
    /\ attrs' = simplescim_ldap_attrs_parser(ldap_attrs)
    /\ loadingLists' = IF scim_variables_of["all"] = {} \/ attrs' = {} THEN "failed" ELSE "done"
    /\ UNCHANGED <<settings, generate_from, next, scim_variables_of>>

-----------------------------------------------------------------------------

NothingFrom == [types |-> {}, from |-> {}]

NoLists == [t \in ListTypes \cup {"all"} |-> {}]

ListsIdle ==
    /\ loadingLists = "idle" /\ settings = <<>> /\ generate_from = NothingFrom /\ next = 1 /\ scim_variables_of = NoLists
    /\ attrs = {}

ListsInit ==
    /\ loadingLists = "templates"
    /\ settings \in [Range(TypeOrder) -> ListSettings]
    /\ generate_from \in GeneratedFrom
    /\ next = 1
    /\ scim_variables_of = NoLists
    /\ attrs = {}

ListsNext ==
    load_templates \/ TemplateFails \/ add_scim_vars_for_virtual_groups \/ AskForAttributes

ListsSpec == ListsInit /\ [][ListsNext]_listVars

-----------------------------------------------------------------------------
\* Properties.

\* Whichever of two related types is loaded first, LDAP is asked for every
\* attribute that a type uses, hides, transforms, relates by or generates groups
\* from, and a related type has the attributes that others want of it
\* (config_file::load_template, establish_relation): an attribute that is not asked for is one that no object
\* has, and the objects that need it are then dropped or rendered without it.
\* Of a list of hidden attributes it holds with a blank after each comma; of "a,b c"
\* b is lost.
EveryAttributeIsAsked ==
    loadingLists = "done" =>
        /\ \A name \in generate_from.from, t \in generate_from.types :
              name \in attrs /\ name \in scim_variables_of[t]
        /\ \A t \in Range(TypeOrder) :
              LET s == settings[t]
                  hidden == IF Tidy(s.hidden) THEN Listed(s.hidden) ELSE {}
              IN  /\ \A name \in s.used \cup s.transformed \cup hidden :
                        /\ <<name[Len(name)]>> \in attrs
                        /\ name \in scim_variables_of[t]
                        /\ Len(name) = 2 => <<name[2]>> \in scim_variables_of[name[1]]
                  /\ \A n \in DOMAIN s.relations :
                        LET r == s.relations[n]
                        IN  /\ {<<r.local_attribute>>, <<r.remote_attribute>>} \ {<<"">>} \subseteq attrs
                            /\ <<r.remote_attribute>> \in scim_variables_of[r.type] \cup {<<"">>}

\* The inductive invariant behind it, in named parts.

\* What the settings of a type say is in the lists.
AreListed(t) ==
    LET s == settings[t] IN
    /\ NamesOf(s) \subseteq scim_variables_of[t] \cap scim_variables_of["all"]
    /\ \A name \in NamesOf(s) :
          IsName(name) /\ Len(name) = 2 => <<name[2]>> \in scim_variables_of[name[1]]
    /\ \A n \in DOMAIN s.relations :
          LET r == s.relations[n]
          IN  <<r.remote_attribute>> \in
                  (scim_variables_of[r.type] \cap scim_variables_of["all"]) \cup {<<"">>}

ListsTyped ==
    /\ loadingLists \in {"templates", "ldap", "done", "failed"}
    /\ settings \in [Range(TypeOrder) -> ListSettings]
    /\ generate_from \in GeneratedFrom
    /\ next \in 1..Len(TypeOrder) + 1
    /\ DOMAIN scim_variables_of = ListTypes \cup {"all"}
    /\ IsFiniteSet(scim_variables_of["all"])

ListsInv ==
    /\ ListsTyped
    /\ \A k \in 1..next - 1 : AreListed(TypeOrder[k])
    /\ loadingLists \in {"ldap", "done"} =>
          /\ next = Len(TypeOrder) + 1
          /\ \A name \in generate_from.from, t \in generate_from.types :
                name \in scim_variables_of[t] \cap scim_variables_of["all"]
    /\ loadingLists = "done" =>
          \A name \in scim_variables_of["all"] : LdapName(name) \in attrs \cup {Comma, Space}
=============================================================================
