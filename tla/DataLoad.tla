------------------------------- MODULE DataLoad -------------------------------
(***************************************************************************)
(* Loading the data source: data_server::load, the loaders it calls for    *)
(* each type (LDAP, tables read as a whole, generated Employments), and    *)
(* load_related, which relates the objects of a list to others and loads   *)
(* those from LDAP that are not there yet, recursively.                    *)
(*                                                                         *)
(* Objects are shared by pointer: the same object can be in the list that  *)
(* is being loaded and in the data server, and an object of the same id    *)
(* can replace it.  So objects live on a heap, and lists are sets of       *)
(* places on it, of which no two have the same id.                         *)
(***************************************************************************)
EXTENDS Integers, SequencesExt

CONSTANTS
    Type,                \* the EGIL types
    Id,                  \* unique identifiers in the data source
    Value,               \* values of the attributes that relations match
    Configs,             \* what the configuration file may say
    Sources,             \* what the data source may hold
    PageSize,            \* LDAP entries in a page
    MaxFaults,           \* BOUND: failures of the data source
    ignore_dups          \* the setting ignore-duplicate-uuids

\* A generated object has an id computed from two others.
Uid == Id \cup (Id \X Id)

\* key: the values of the attribute that others match (remote_attribute);
\* refs: the values of the local_attribute of the relation to each type;
\* included: the limiter lets the object through.
Entry == [id: Id, key: SUBSET Value, refs: [Type -> Seq(Value)], included: BOOLEAN]

\* links: the objects it was related to.
Instance == [type: Type, id: Uid, key: SUBSET Value, refs: [Type -> Seq(Value)],
             links: SUBSET (Type \X Uid)]

Relation == [type: Type, method: {"object", "ldap"}, require: BOOLEAN]

\* order: scim-type-load-order; kind: where each type is loaded from;
\* relations: <type>-remote-relations; orphan: <type>-orphan-if-missing;
\* master, remote: what Employments are generated from (Employment-generate-key,
\* Employment-generate-remote-part); filterFirst: Activity and Employment.
Config == [order: Seq(Type), kind: [Type -> {"table", "ldap", "generated", "none"}],
           relations: [Type -> Seq(Relation)], orphan: [Type -> SUBSET Type],
           master: Type, remote: Type, filterFirst: SUBSET Type]

ASSUME LoadAssumption ==
    /\ Configs \subseteq Config
    /\ \A c \in Configs : c.kind[c.master] # "generated" /\ c.kind[c.remote] # "generated"
    /\ \A s \in Sources : s \in [Type -> Seq(Entry)]
    /\ PageSize \in Nat \ {0}
    /\ MaxFaults \in Nat
    /\ ignore_dups \in BOOLEAN

VARIABLES
    config, source,      \* this run's settings and data
    at,                  \* the place in the load order
    filtered,            \* filtered_orphans
    heap,                \* every object made so far
    data,                \* [type -> the objects the data server holds]
    stack,               \* the lists being loaded, the innermost first
    result,              \* "none" so far, "loaded" or "failed"
    faults,              \* failures of the data source so far
    cut                  \* history: a search ended before its last entry

settingVars == <<config, source>>
vars == <<settingVars, at, filtered, heap, data, stack, result, faults, cut>>

\* A call that loads a list: it reads entries (ldap_to_object_list), then
\* relates the objects of its list (load_related).  unread: the entries that
\* the search has yet to return, read: how many it has; todo: the objects that
\* remain to be related; main: the one at hand (0 for none), at value val of
\* its relation rel, for which found; remove: to_remove.
Frame == [type: Type, reading: BOOLEAN, unread: Seq(Entry), read: Nat,
          list: SUBSET Nat, todo: SUBSET Nat, main: Nat, rel: Nat, val: Nat,
          found: BOOLEAN, remove: SUBSET Nat]

\* Objects of one type, no two of one id.
IsListOf(t, list) ==
    /\ list \subseteq DOMAIN heap
    /\ \A i \in list : heap[i].type = t
    /\ \A i, j \in list : heap[i].id = heap[j].id => i = j

\* The type invariant: what the data server holds and every list that is being
\* loaded are lists of one type, whatever relations load (object_list).
LoadTypeOK ==
    /\ config \in Configs /\ source \in Sources
    /\ at \in Nat \ {0} /\ filtered \in BOOLEAN
    /\ heap \in Seq(Instance)
    /\ data \in [Type -> SUBSET (DOMAIN heap)]
    /\ \A t \in Type : IsListOf(t, data[t])
    /\ stack \in Seq(Frame)
    /\ \A k \in DOMAIN stack :
          /\ IsListOf(stack[k].type, stack[k].list)
          /\ stack[k].main \in stack[k].todo \cup {0}
          /\ stack[k].todo \cup stack[k].remove \subseteq stack[k].list
    /\ result \in {"none", "loaded", "failed"}
    /\ faults \in 0..MaxFaults /\ cut \in BOOLEAN

LoadInit ==
    /\ config \in Configs /\ source \in Sources
    /\ at = 1 /\ filtered = FALSE
    /\ heap = <<>> /\ data = [t \in Type |-> {}] /\ stack = <<>>
    /\ result = "none" /\ faults = 0 /\ cut = FALSE

-----------------------------------------------------------------------------
\* Objects and lists of objects.

MakeInstance(t, e) ==
    [type |-> t, id |-> e.id, key |-> e.key, refs |-> e.refs, links |-> {}]

\* Mutant: an object does not replace one of the same id.
AddObject_Twice(h, list, i) == list \cup {i}

\* object_list::add_object: an object replaces one of the same id.
AddObject(h, list, i) == {j \in list : h[j].id # h[i].id} \cup {i}

\* data_server::add of a list (object_list::operator+=).
AddList(t, list) ==
    [data EXCEPT ![t] = {j \in @ : \A i \in list : heap[j].id # heap[i].id} \cup list]

\* get_object_for_attribute returns one of these.
FindLoaded(t, v) == {j \in data[t] : v \in heap[j].key}

Establish(h, i, j) ==
    [k \in DOMAIN h |->
        [h[k] EXCEPT !.links = @ \cup (IF k = i THEN {<<h[j].type, h[j].id>>} ELSE {})
                                 \cup (IF k = j THEN {<<h[i].type, h[i].id>>} ELSE {})]]

\* What a list has at some places, in its order.
Picked(list, places) ==
    LET Pick(picked, n) == IF n \in places THEN Append(picked, list[n]) ELSE picked
    IN  FoldLeft(Pick, <<>>, [n \in DOMAIN list |-> n])

\* The relations of a type, the required ones first.
Relations(t) ==
    LET all == config.relations[t]
        required == {n \in DOMAIN all : all[n].require}
    IN  Picked(all, required) \o Picked(all, DOMAIN all \ required)

is_orphan(o) ==
    /\ config.orphan[o.type] # {}
    /\ \A link \in o.links : link[1] \notin config.orphan[o.type]

\* One pass, for all types.
WithoutOrphans == [t \in Type |-> {i \in data[t] : ~is_orphan(heap[i])}]

-----------------------------------------------------------------------------
\* One type after the other.

InOrder == result = "none" /\ stack = <<>> /\ at <= Len(config.order)
CurrentType == config.order[at]

\* Reading ends here, and load_related begins; it returns at once for a type
\* without relations.
Relating(f) ==
    [f EXCEPT !.reading = FALSE, !.todo = IF config.relations[f.type] = <<>> THEN {} ELSE f.list]

NewFrame(t, entries) ==
    [type |-> t, reading |-> TRUE, unread |-> entries, read |-> 0, list |-> {}, todo |-> {},
     main |-> 0, rel |-> 1, val |-> 1, found |-> FALSE, remove |-> {}]

HasDuplicates(objects) ==
    \E i, j \in DOMAIN objects : i < j /\ objects[i].id = objects[j].id

\* When duplicates are ignored, the last object of an id is the one that stays.
LastOfEachId(objects) ==
    {k \in DOMAIN objects : \A j \in (k + 1)..Len(objects) : objects[j].id # objects[k].id}

\* csv_get, sql_get and external_process_get.
LoadTable ==
    /\ InOrder /\ config.kind[CurrentType] = "table"
    /\ LET rows == source[CurrentType]
           kept == {k \in LastOfEachId(rows) : rows[k].included}
       IN  /\ ~ignore_dups => ~HasDuplicates(rows)
           /\ heap' = heap \o [k \in DOMAIN rows |-> MakeInstance(CurrentType, rows[k])]
           /\ stack' = <<Relating([NewFrame(CurrentType, <<>>) EXCEPT
                                      !.list = {Len(heap) + k : k \in kept}])>>
    /\ UNCHANGED <<settingVars, at, filtered, data, result, faults, cut>>

LoadFails ==
    /\ result' = "failed"
    /\ UNCHANGED <<settingVars, at, filtered, heap, data, stack, cut>>

TableHasDuplicates ==
    /\ InOrder /\ config.kind[CurrentType] = "table"
    /\ ~ignore_dups /\ HasDuplicates(source[CurrentType])
    /\ LoadFails /\ UNCHANGED faults

TableFails ==
    /\ InOrder /\ config.kind[CurrentType] = "table"
    /\ faults < MaxFaults /\ faults' = faults + 1
    /\ LoadFails

LoadLdap ==
    /\ InOrder /\ config.kind[CurrentType] = "ldap"
    /\ stack' = <<NewFrame(CurrentType, source[CurrentType])>>
    /\ UNCHANGED <<settingVars, at, filtered, heap, data, result, faults, cut>>

\* "load for <type> returned nothing" is printed, and that is all.
NothingToLoad ==
    /\ InOrder /\ config.kind[CurrentType] = "none"
    /\ at' = at + 1
    /\ UNCHANGED <<settingVars, filtered, heap, data, stack, result, faults, cut>>

\* Mutant: orphans are removed at the end only.
FilterNow_Never == FALSE

\* Orphans are removed before the first Activity or Employment is generated.
FilterNow == ~filtered /\ CurrentType \in config.filterFirst

BeforeGenerating == IF FilterNow THEN WithoutOrphans ELSE data

\* get_generated_employment: a master, a value of its key, and the remote object
\* that is found by it.
Combinations(objects) ==
    {c \in objects[config.master] \X Value \X objects[config.remote] :
        /\ \E k \in DOMAIN heap[c[1]].refs[config.remote] :
              heap[c[1]].refs[config.remote][k] = c[2]
        /\ c[2] \in heap[c[3]].key}

Employment(c) ==
    [type |-> CurrentType, id |-> <<heap[c[3]].id, heap[c[1]].id>>, key |-> {}, links |-> {},
     refs |-> [t \in Type |-> IF t = config.remote THEN <<c[2]>> ELSE <<>>]]

Employments(objects) ==
    LET combinations == SetToSeq(Combinations(objects))
    IN  [k \in DOMAIN combinations |-> Employment(combinations[k])]

GenerateEmployments ==
    /\ InOrder /\ config.kind[CurrentType] = "generated"
    /\ data' = BeforeGenerating
    /\ filtered' = (filtered \/ FilterNow)
    /\ LET generated == Employments(data')
       IN  /\ ~ignore_dups => ~HasDuplicates(generated)
           /\ heap' = heap \o generated
           /\ stack' = <<Relating([NewFrame(CurrentType, <<>>) EXCEPT
                                      !.list = {Len(heap) + k : k \in LastOfEachId(generated)}])>>
    /\ UNCHANGED <<settingVars, at, result, faults, cut>>

\* "two employments were generated with the same uuid".
EmploymentsCollide ==
    /\ InOrder /\ config.kind[CurrentType] = "generated"
    /\ ~ignore_dups /\ HasDuplicates(Employments(BeforeGenerating))
    /\ LoadFails /\ UNCHANGED faults

-----------------------------------------------------------------------------
\* Searches: ldap_to_object_list reads entries until it is given none.

Top == Head(stack)
SetTop(f) == stack' = <<f>> \o Tail(stack)

Reading == result = "none" /\ stack # <<>> /\ Top.reading

ReadEntry ==
    /\ Reading /\ Top.unread # <<>>
    /\ LET e == Head(Top.unread)
       IN  /\ heap' = Append(heap, MakeInstance(Top.type, e))
           /\ SetTop([Top EXCEPT
                         !.unread = Tail(@), !.read = @ + 1,
                         !.list = IF e.included THEN AddObject(heap', @, Len(heap')) ELSE @])
    /\ UNCHANGED <<settingVars, at, filtered, data, result, faults, cut>>

\* next_object finds no entry where there should be one: what was read so far
\* is taken for the whole.
Truncate ==
    /\ faults < MaxFaults /\ faults' = faults + 1
    /\ cut' = TRUE
    /\ SetTop([Top EXCEPT !.unread = <<>>])
    /\ UNCHANGED <<settingVars, at, filtered, heap, data, result>>

\* The search for the next page fails.
NextPageFails ==
    /\ Reading /\ Top.unread # <<>> /\ Top.read > 0 /\ Top.read % PageSize = 0
    /\ Truncate

\* entry_to_base_object fails for an entry.
EntryFails == Reading /\ Top.unread # <<>> /\ Truncate

EndOfEntries ==
    /\ Reading /\ Top.unread = <<>>
    /\ SetTop(Relating(Top))
    /\ UNCHANGED <<settingVars, at, filtered, heap, data, result, faults, cut>>

-----------------------------------------------------------------------------
\* load_related: the objects of the list, their relations, the values of each.

RelatingNow == result = "none" /\ stack # <<>> /\ ~Top.reading

PickMain ==
    /\ RelatingNow /\ Top.main = 0
    /\ \E i \in Top.todo :
          SetTop([Top EXCEPT !.main = i, !.rel = 1, !.val = 1, !.found = FALSE])
    /\ UNCHANGED <<settingVars, at, filtered, heap, data, result, faults, cut>>

CurrentRelation == Relations(Top.type)[Top.rel]
CurrentValues == heap[Top.main].refs[CurrentRelation.type]
CurrentValue == CurrentValues[Top.val]
AtValue == RelatingNow /\ Top.main # 0 /\ Top.val <= Len(CurrentValues)

\* Mutant: what is loaded already is not looked for when a relation is "ldap".
Matches_NotCached ==
    IF CurrentRelation.method = "ldap" THEN {} ELSE FindLoaded(CurrentRelation.type, CurrentValue)

Matches == FindLoaded(CurrentRelation.type, CurrentValue)

RelateLoaded ==
    /\ AtValue
    /\ \E j \in Matches : heap' = Establish(heap, Top.main, j)
    /\ SetTop([Top EXCEPT !.val = @ + 1, !.found = TRUE])
    /\ UNCHANGED <<settingVars, at, filtered, data, result, faults, cut>>

NothingLoaded ==
    /\ AtValue /\ CurrentRelation.method = "object" /\ Matches = {}
    /\ SetTop([Top EXCEPT !.val = @ + 1])
    /\ UNCHANGED <<settingVars, at, filtered, heap, data, result, faults, cut>>

Searches == AtValue /\ CurrentRelation.method = "ldap" /\ Matches = {}

StartSearch ==
    /\ Searches
    /\ LET entries == source[CurrentRelation.type]
           found == {n \in DOMAIN entries : CurrentValue \in entries[n].key}
       IN  stack' = <<NewFrame(CurrentRelation.type, Picked(entries, found))>> \o stack
    /\ UNCHANGED <<settingVars, at, filtered, heap, data, result, faults, cut>>

\* The first page cannot be had, of a type or of a relation: "exiting", or no
\* connection.
SearchFails ==
    /\ (InOrder /\ config.kind[CurrentType] = "ldap") \/ Searches
    /\ faults < MaxFaults /\ faults' = faults + 1
    /\ LoadFails

\* Mutant: an object without a required relation is kept.
AfterRelation_KeepsMain(f) ==
    IF f.rel = Len(Relations(f.type)) THEN [f EXCEPT !.main = 0, !.todo = @ \ {f.main}]
    ELSE [f EXCEPT !.rel = @ + 1, !.val = 1, !.found = FALSE]

\* An object without a required relation is removed and not looked at further.
AfterRelation(f) ==
    LET next == [f EXCEPT !.main = 0, !.todo = @ \ {f.main}]
    IN  IF Relations(f.type)[f.rel].require /\ ~f.found
        THEN [next EXCEPT !.remove = @ \cup {f.main}]
        ELSE IF f.rel = Len(Relations(f.type)) THEN next
        ELSE [f EXCEPT !.rel = @ + 1, !.val = 1, !.found = FALSE]

NextRelation ==
    /\ RelatingNow /\ Top.main # 0 /\ Top.val > Len(CurrentValues)
    /\ SetTop(AfterRelation(Top))
    /\ UNCHANGED <<settingVars, at, filtered, heap, data, result, faults, cut>>

AllRelated == RelatingNow /\ Top.main = 0 /\ Top.todo = {}

\* The caller adds and relates a response of one object and ignores the rest.
ReturnResponse ==
    /\ AllRelated /\ Len(stack) > 1
    /\ LET response == Top.list \ Top.remove
           caller == stack[2]
           one == Cardinality(response) = 1
       IN  /\ data' = IF one THEN AddList(Top.type, response) ELSE data
           /\ heap' = IF one
                      THEN Establish(heap, caller.main, CHOOSE j \in response : TRUE) ELSE heap
           /\ stack' = <<[caller EXCEPT !.val = @ + 1, !.found = @ \/ one]>>
                           \o SubSeq(stack, 3, Len(stack))
    /\ UNCHANGED <<settingVars, at, filtered, result, faults, cut>>

ReturnList ==
    /\ AllRelated /\ Len(stack) = 1
    /\ data' = AddList(Top.type, Top.list \ Top.remove)
    /\ stack' = <<>> /\ at' = at + 1
    /\ UNCHANGED <<settingVars, filtered, heap, result, faults, cut>>

-----------------------------------------------------------------------------
\* The end of data_server::load.

AllLoaded == result = "none" /\ stack = <<>> /\ at > Len(config.order)
Filtered == IF filtered THEN data ELSE WithoutOrphans

\* scan_for_duplicates finds an id under two types.
SharedIds(objects) ==
    \E s, t \in Type : s # t /\ \E i \in objects[s], j \in objects[t] : heap[i].id = heap[j].id

LoadSucceeds ==
    /\ AllLoaded
    /\ ~ignore_dups => ~SharedIds(Filtered)
    /\ data' = Filtered /\ filtered' = TRUE
    /\ result' = "loaded"
    /\ UNCHANGED <<settingVars, at, heap, stack, faults, cut>>

DuplicatesFound ==
    /\ AllLoaded /\ ~ignore_dups /\ SharedIds(Filtered)
    /\ LoadFails /\ UNCHANGED faults

Ended == result # "none" /\ UNCHANGED vars

LoadStep ==
    \/ LoadTable \/ TableHasDuplicates \/ TableFails \/ LoadLdap \/ NothingToLoad
    \/ GenerateEmployments \/ EmploymentsCollide
    \/ ReadEntry \/ NextPageFails \/ EntryFails \/ EndOfEntries
    \/ PickMain \/ RelateLoaded \/ NothingLoaded \/ StartSearch \/ SearchFails
    \/ NextRelation \/ ReturnResponse \/ ReturnList
    \/ LoadSucceeds \/ DuplicatesFound

LoadNext == LoadStep \/ Ended

LoadSpec == LoadInit /\ [][LoadNext]_vars

-----------------------------------------------------------------------------
\* What the settings ask for, said without following the load: all of this
\* looks only at config and source.

Entries(t) == {source[t][k] : k \in DOMAIN source[t]}
Refers(o, t, e) == \E k \in DOMAIN o.refs[t] : o.refs[t][k] \in e.key
RelationsTo(s, t) ==
    {r \in {config.relations[s][k] : k \in DOMAIN config.relations[s]} : r.type = t}
InLoadOrder(t) == \E k \in DOMAIN config.order : config.order[k] = t

\* What a relation of p finds among the entries of its type: the one that is
\* loaded, or the one that LDAP returns.
Finds(p, r, e, entries) ==
    \E k \in DOMAIN p.refs[r.type] :
        LET found == {q \in entries : p.refs[r.type][k] \in q.key}
        IN  e \in found /\ (r.method = "ldap" => found = {e})

\* Objects that the limiter lets through and whose required relations can be
\* established; n bounds how far relations are followed.
Fit[n \in 0..Cardinality(Type)] ==
    [t \in Type |->
        IF n = 0 THEN {}
        ELSE {e \in Entries(t) :
                /\ e.included
                /\ \A s \in Type : \A r \in RelationsTo(t, s) : r.require =>
                      \E q \in Fit[n - 1][s] : Finds(e, r, q, Fit[n - 1][s])}]
FitEntries(t) == Fit[Cardinality(Type)][t]

\* Objects of types in the load order, and those found from them.
Present[n \in 0..Cardinality(Type)] ==
    [t \in Type |->
        {e \in FitEntries(t) :
            \/ InLoadOrder(t)
            \/ n > 0 /\ \E s \in Type : \E p \in Present[n - 1][s] :
                   \E r \in RelationsTo(s, t) : r.method = "ldap" /\ Finds(p, r, e, FitEntries(t))}]

\* Objects that some search may come across: also from an object that is itself
\* not kept, or by a value that finds several.
Reached[n \in 0..Cardinality(Type)] ==
    [t \in Type |->
        {e \in Entries(t) :
            /\ e.included
            /\ \/ InLoadOrder(t)
               \/ n > 0 /\ \E s \in Type : \E p \in Reached[n - 1][s] :
                      \E r \in RelationsTo(s, t) : r.method = "ldap" /\ Refers(p, t, e)}]

\* A relation in either direction.
Related(s, p, t, q) ==
    \/ RelationsTo(s, t) # {} /\ Refers(p, t, q)
    \/ RelationsTo(t, s) # {} /\ Refers(q, s, p)

OrphanAmong(t, e, others) ==
    /\ config.orphan[t] # {}
    /\ \A s \in config.orphan[t] : \A q \in others[s] : ~Related(t, e, s, q)

Wanted(t) ==
    LET present == Present[Cardinality(Type)]
    IN  {e.id : e \in {f \in present[t] : ~OrphanAmong(t, f, present)}}

Tolerated(t) ==
    LET reached == Reached[Cardinality(Type)]
    IN  {e.id : e \in {f \in reached[t] \cap FitEntries(t) : ~OrphanAmong(t, f, reached)}}

-----------------------------------------------------------------------------
\* Properties.

LoadedIds(t) == {heap[i].id : i \in data[t]}
Sourced == {t \in Type : config.kind[t] # "generated"}

\* Within a type, ids are unique, and so are the values that are looked up among
\* loaded objects ("supposed to be used when the attribute can be used as a
\* primary key", model/object_list.hpp:92); objects that LDAP finds by one value
\* are found by the same values.
SourceIsSound ==
    \A t \in Type : \A i, j \in DOMAIN source[t] : i # j =>
        LET shared == source[t][i].key \cap source[t][j].key
        IN  /\ source[t][i].id # source[t][j].id
            /\ shared # {} => source[t][i].key = source[t][j].key
            /\ shared # {} => \A s \in Type : \A r \in RelationsTo(s, t) : r.method = "ldap"

Undisturbed == result = "loaded" /\ ~cut /\ SourceIsSound

\* A load that was not cut short holds all that the settings ask for, whatever
\* the order of the objects and however they were found, and nothing that lacks
\* a required relation or that no relation leads to (data_server.cpp:35,
\* load_common.cpp:113): what is missing here is deleted on the server.
LoadedIsWanted ==
    Undisturbed =>
        \A t \in Sourced : Wanted(t) \subseteq LoadedIds(t) /\ LoadedIds(t) \subseteq Tolerated(t)

\* Nothing is missing, whatever happened to the searches: on an error, "nullptr
\* is returned" (simplescim_ldap.cpp:42), and the load fails.
LoadIsWhole ==
    result = "loaded" /\ SourceIsSound => \A t \in Sourced : Wanted(t) \subseteq LoadedIds(t)

Linked(i, j) == <<heap[j].type, heap[j].id>> \in heap[i].links

\* At no time are two loaded objects related that the settings do not relate.
LinkedAreRelated ==
    SourceIsSound =>
        \A s, t \in Sourced : \A i \in data[s], j \in data[t] :
            Linked(i, j) => Related(s, heap[i], t, heap[j])

\* At no time is an object loaded that was not related to one that it refers to
\* by each of its required relations (load_common.cpp:203).
RequiredAreLinked ==
    \A s, t \in Type : \A i \in data[s] : \A r \in RelationsTo(s, t) : r.require =>
        \E j \in DOMAIN heap : heap[j].type = t /\ Linked(i, j) /\ Refers(heap[i], t, heap[j])

\* Two loaded objects are related if and only if the settings say so, and then
\* each knows of the other, although the relation is made from one side, at
\* some point of a recursion, by way of objects that may be replaced
\* (load_common.cpp:64).
RelationsAsConfigured ==
    /\ LinkedAreRelated /\ RequiredAreLinked
    /\ Undisturbed =>
          \A s, t \in Sourced : \A i \in data[s], j \in data[t] :
              Related(s, heap[i], t, heap[j]) => Linked(i, j)

\* There is an Employment for exactly the pairs of a loaded master and a loaded
\* remote object that belong together; none for an orphan (data_server.cpp:58).
EmploymentsAreDerived ==
    Undisturbed =>
        \A t \in Type \ Sourced : InLoadOrder(t) =>
            LoadedIds(t) = {<<heap[c[2]].id, heap[c[1]].id>> :
                               c \in {d \in data[config.master] \X data[config.remote] :
                                         Refers(heap[d[1]], config.remote, heap[d[2]])}}

-----------------------------------------------------------------------------
\* The inductive invariant behind LoadTypeOK, LinkedAreRelated and
\* RequiredAreLinked, in named parts.

\* What was read is in the source.
IsFromSource(o) ==
    o.type \in Sourced => \E e \in Entries(o.type) : o.id = e.id /\ o.key = e.key /\ o.refs = e.refs

\* Each relation that was made is one that the settings ask for.
LinksAreMeant(i) ==
    \A link \in heap[i].links : \E j \in DOMAIN heap :
        /\ link = <<heap[j].type, heap[j].id>>
        /\ Related(heap[i].type, heap[i], heap[j].type, heap[j])

\* The object was related as relation r asks.
Made(i, r) ==
    \E j \in DOMAIN heap : heap[j].type = r.type /\ Linked(i, j) /\ Refers(heap[i], r.type, heap[j])

\* The relations before the n-th that are required were made.
MadeBefore(i, t, n) ==
    \A k \in 1..n - 1 : Relations(t)[k].require => Made(i, Relations(t)[k])

RelationOf(f) == Relations(f.type)[f.rel]
ValuesOf(f) == heap[f.main].refs[RelationOf(f).type]

FrameOK(f) ==
    /\ IsListOf(f.type, f.list)
    /\ f.main \in f.todo \cup {0}
    /\ f.todo \cup f.remove \subseteq f.list
    /\ Range(f.unread) \subseteq Entries(f.type)
    /\ f.reading => f.todo = {} /\ f.remove = {}
    /\ f.todo # {} => Relations(f.type) # <<>>
    /\ f.main # 0 =>
          /\ f.rel \in 1..Len(Relations(f.type)) /\ f.val \in Nat \ {0}
          /\ MadeBefore(f.main, f.type, f.rel)
          /\ f.found => Made(f.main, RelationOf(f))
    /\ ~f.reading =>
          \A i \in f.list \ (f.todo \cup f.remove) :
              MadeBefore(i, f.type, Len(Relations(f.type)) + 1)

\* A list is loaded for the value at hand of the list below it.
IsCalledBy(f, caller) ==
    /\ ~caller.reading /\ caller.main # 0
    /\ caller.val <= Len(ValuesOf(caller))
    /\ f.type = RelationOf(caller).type
    /\ \A i \in f.list : ValuesOf(caller)[caller.val] \in heap[i].key
    /\ \A e \in Range(f.unread) : ValuesOf(caller)[caller.val] \in e.key

LoadInv ==
    /\ LoadTypeOK
    /\ \A i \in DOMAIN heap : IsFromSource(heap[i]) /\ LinksAreMeant(i)
    /\ \A k \in DOMAIN stack : FrameOK(stack[k])
    /\ \A k \in DOMAIN stack \ {1} : IsCalledBy(stack[k - 1], stack[k])
    /\ \A t \in Type : \A i \in data[t] : MadeBefore(i, t, Len(Relations(t)) + 1)
================================================================================
