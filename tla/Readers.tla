------------------------------- MODULE Readers -------------------------------
(***************************************************************************)
(* The parts of the client that work on what others wrote: templates, the  *)
(* configuration, lists of attributes, limiters, CSV files, the cache      *)
(* file, the answers to queries and the groups that users name.  They hand *)
(* on their results and share no state, so a behaviour has one of them at  *)
(* work, on any of its inputs, and the others idle.                        *)
(***************************************************************************)
EXTENDS Templates, ConfigFile, AttributeLists, CsvFile, CacheFormat,
        ScimQuery, GeneratedGroups

readerVars == <<templateVars, configVars, listVars, limiterVars, csvVars, formatVars, queryVars,
                groupVars>>

TemplatesOnly ==
    UNCHANGED <<configVars, listVars, limiterVars, csvVars, formatVars, queryVars, groupVars>>
ConfigOnly ==
    UNCHANGED <<templateVars, listVars, limiterVars, csvVars, formatVars, queryVars, groupVars>>
ListsOnly ==
    UNCHANGED <<templateVars, configVars, limiterVars, csvVars, formatVars, queryVars, groupVars>>
LimitersOnly ==
    UNCHANGED <<templateVars, configVars, listVars, csvVars, formatVars, queryVars, groupVars>>
CsvOnly ==
    UNCHANGED <<templateVars, configVars, listVars, limiterVars, formatVars, queryVars, groupVars>>
FormatOnly ==
    UNCHANGED <<templateVars, configVars, listVars, limiterVars, csvVars, queryVars, groupVars>>
QueryOnly ==
    UNCHANGED <<templateVars, configVars, listVars, limiterVars, csvVars, formatVars, groupVars>>
GroupsOnly ==
    UNCHANGED <<templateVars, configVars, listVars, limiterVars, csvVars, formatVars, queryVars>>

ReadersInit ==
    \/ TemplatesInit /\ ConfigIdle /\ ListsIdle /\ LimitersIdle /\ CsvIdle
       /\ FormatIdle /\ QueryIdle /\ GroupsIdle
    \/ TemplatesIdle /\ ConfigInit /\ ListsIdle /\ LimitersIdle /\ CsvIdle
       /\ FormatIdle /\ QueryIdle /\ GroupsIdle
    \/ TemplatesIdle /\ ConfigIdle /\ ListsInit /\ LimitersIdle /\ CsvIdle
       /\ FormatIdle /\ QueryIdle /\ GroupsIdle
    \/ TemplatesIdle /\ ConfigIdle /\ ListsIdle /\ LimitersInit /\ CsvIdle
       /\ FormatIdle /\ QueryIdle /\ GroupsIdle
    \/ TemplatesIdle /\ ConfigIdle /\ ListsIdle /\ LimitersIdle /\ CsvInit
       /\ FormatIdle /\ QueryIdle /\ GroupsIdle
    \/ TemplatesIdle /\ ConfigIdle /\ ListsIdle /\ LimitersIdle /\ CsvIdle
       /\ FormatInit /\ QueryIdle /\ GroupsIdle
    \/ TemplatesIdle /\ ConfigIdle /\ ListsIdle /\ LimitersIdle /\ CsvIdle
       /\ FormatIdle /\ QueryInit /\ GroupsIdle
    \/ TemplatesIdle /\ ConfigIdle /\ ListsIdle /\ LimitersIdle /\ CsvIdle
       /\ FormatIdle /\ QueryIdle /\ GroupsInit

ReadersNext ==
    \/ TemplatesNext /\ TemplatesOnly
    \/ ConfigNext /\ ConfigOnly
    \/ ListsNext /\ ListsOnly
    \/ LimitersNext /\ LimitersOnly
    \/ CsvNext /\ CsvOnly
    \/ FormatNext /\ FormatOnly
    \/ QueryNext /\ QueryOnly
    \/ GroupsNext /\ GroupsOnly

ReadersSpec == ReadersInit /\ [][ReadersNext]_readerVars

\* The client goes on with a query, and with a configuration file.
FairReadersSpec ==
    ReadersSpec /\ WF_readerVars(ConfigNext /\ ConfigOnly) /\ WF_readerVars(QueryStep /\ QueryOnly)

-----------------------------------------------------------------------------
\* Properties.

\* A query comes to an end whatever others do at the endpoint between two pages,
\* and the configuration whatever is in it: no page and no line is read for ever
\* (simplescim_query_impl, config_parser::parse); nothing would stop them.  A page
\* is taken to have something in it as long as there is more: without, the query
\* would ask for it for ever.
ReadersEnd == <>(query # "asking" /\ reading # "file")
=============================================================================
