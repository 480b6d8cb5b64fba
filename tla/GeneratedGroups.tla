---------------------------- MODULE GeneratedGroups ----------------------------
(***************************************************************************)
(* Groups that the data source does not have as objects: they are          *)
(* generated from attributes of users that name the groups they belong to  *)
(* (get_generated_student_group), and an Activity is generated for each    *)
(* group, with the employments of its teachers (get_generated_activity).   *)
(* The users of a type come in the order of their ids, which is arbitrary. *)
(*                                                                         *)
(* A value of such an attribute, an id and a format are sequences of       *)
(* characters; "$1" and "$2" in a format stand for the two parts of a      *)
(* value, before and after the separator.                                  *)
(***************************************************************************)
EXTENDS LoadLimiters

CONSTANTS
    UserLists,       \* [type -> [user -> [attribute -> Seq(values)]]]: users as they were loaded
    GenerateConfigs, \* [from_types : Seq(types), attributes : Seq(specifications),
                     \*  transform : Seq(transforms), limit : a limiter]
    Units,           \* ids of school units, as groups and employments have them
    EmploymentLists  \* sets of employments, [id, teacher, unit]

\* What is read of a user, and what is configured, are lists.
IsList(s) == s \in Seq(Range(s))

HasLists(us) == \A t \in DOMAIN us : \A u \in DOMAIN us[t] : \A a \in DOMAIN us[t][u] : IsList(us[t][u][a])

ASSUME GroupAssumption ==
    /\ \A us \in UserLists : HasLists(us)
    /\ \A g \in GenerateConfigs : IsList(g.from_types) /\ IsList(g.attributes)

VARIABLES
    generating,      \* "started", "groups", "activities", "done" or "failed"
    generate,        \* the configuration
    users,           \* the users of each type
    employments,
    from_types,      \* types that are still to come
    user_list,       \* users of the present type that are still to come
    matches,         \* values of the present user that are still to come
    generated,       \* [id -> [attributes, members]], the groups
    dont_try_again,  \* ids of groups that the limiter refused
    relations,       \* <<user, id>>: groups that a user is told of
    activities,      \* [id -> Seq(employments)]
    student_groups   \* groups that have no Activity yet

groupVars == <<generating, generate, users, employments, from_types, user_list, matches,
               generated, dont_try_again, relations, activities, student_groups>>

\* Types of users that the groups are generated from.
FromTypes == Range(generate.from_types)
UsersOf(type) == IF type \in DOMAIN users THEN DOMAIN users[type] ELSE {}

\* Those of a list that are in a set, in the order of the list.
Among(list, S) == FlattenSeq([n \in DOMAIN list |-> IF list[n] \in S THEN <<list[n]>> ELSE <<>>])

\* A map with an entry that it did not have.
With(f, key, value) == [k \in DOMAIN f \cup {key} |-> IF k = key THEN value ELSE f[k]]

-----------------------------------------------------------------------------
\* Regular expressions of the form (.*)#(.*), with a separator for the #.

regex_match(value, separator) == \E n \in DOMAIN value : value[n] = separator

\* The first part takes as much as it can.
Parts(value, separator) ==
    LET last == CHOOSE n \in DOMAIN value :
                    /\ value[n] = separator
                    /\ \A m \in DOMAIN value : m > n => value[m] # separator
    IN  <<SubSeq(value, 1, last - 1), SubSeq(value, last + 1, Len(value))>>

Expand(format, parts) ==
    FlattenSeq([n \in DOMAIN format |->
        CASE format[n] = "$1" -> parts[1]
          [] format[n] = "$2" -> parts[2]
          [] OTHER            -> <<format[n]>>])

regex_replace(value, spec, format) == Expand(format, Parts(value, spec.match))

-----------------------------------------------------------------------------
\* Transformers.

get_values(obj, attr) == IF attr \in DOMAIN obj THEN obj[attr] ELSE <<>>

append_values(obj, attr, values) ==
    [a \in DOMAIN obj \cup {attr} |-> IF a = attr THEN get_values(obj, a) \o values ELSE obj[a]]

\* The rules that a value goes through: all that match, or the first.
RulesFor(t, value) ==
    LET matching == SelectSeq(t.transforms, LAMBDA rule : value \in rule.match)
    IN  IF t.matchAll \/ matching = <<>> THEN matching ELSE <<matching[1]>>

regex_transformer(obj, t) ==
    LET Apply(o, rule) == append_values(o, rule.to, <<rule.replace>>)
        Transformed(o, value) ==
            IF RulesFor(t, value) # <<>> THEN FoldLeft(Apply, o, RulesFor(t, value))
            ELSE IF t.noMatch # "" THEN append_values(o, t.noMatch, <<value>>)
            ELSE o
    IN  FoldLeft(Transformed, obj, get_values(obj, t.from))

multi_attribute_transformer(obj) == FoldLeft(regex_transformer, obj, generate.transform)

-----------------------------------------------------------------------------
\* Groups.

groupFrame == <<generate, users, employments, activities, student_groups>>

WellFormed(spec) == "uuid" \in DOMAIN spec

\* A specification without one of its parts ends the load.
parse_student_group_attributes ==
    /\ generating = "started"
    /\ generating' = IF \A n \in DOMAIN generate.attributes : WellFormed(generate.attributes[n])
                     THEN "groups" ELSE "failed"
    /\ from_types' = generate.from_types
    /\ UNCHANGED <<user_list, matches, generated, dont_try_again, relations, groupFrame>>

UserIsDone == generating = "groups" /\ matches = <<>>

NextType ==
    /\ UserIsDone /\ user_list = {} /\ from_types # <<>>
    /\ user_list' = {<<Head(from_types), u>> : u \in UsersOf(Head(from_types))}
    /\ from_types' = Tail(from_types)
    /\ UNCHANGED <<generating, matches, generated, dont_try_again, relations, groupFrame>>

\* A user's values that match, in the order of the specifications.
Match(type, u, spec, value) == [type |-> type, user |-> u, spec |-> spec, from |-> value]

ValuesFor(type, u, spec) ==
    LET values == get_values(users[type][u], spec.from)
    IN  Among(values, {v \in Range(values) : regex_match(v, spec.match)})

MatchesOf(type, u) ==
    FlattenSeq([n \in DOMAIN generate.attributes |->
        LET spec == generate.attributes[n]
            values == ValuesFor(type, u, spec)
        IN  [k \in DOMAIN values |-> Match(type, u, spec, values[k])]])

NextUser ==
    /\ UserIsDone
    /\ \E member \in user_list :
          /\ user_list' = user_list \ {member}
          /\ matches' = MatchesOf(member[1], member[2])
    /\ UNCHANGED <<generating, from_types, generated, dont_try_again, relations, groupFrame>>

\* The id, of which the hash is left out.
uuid_of(m) == regex_replace(m.from, m.spec, m.spec.uuid)

\* The group as the user's value has it.
GroupFrom(m) ==
    multi_attribute_transformer(
        [a \in DOMAIN m.spec.attributes |-> <<regex_replace(m.from, m.spec, m.spec.attributes[a])>>])

\* The attributes that a limiter looks at.
LimitedBy(l) == {l[n].by : n \in {k \in DOMAIN l : l[k].with \in {"list", "regex"}}}

IsIncluded(group) ==
    \/ generate.limit = NoLimit
    \/ include(generate.limit,
               [a \in DOMAIN group \cup LimitedBy(generate.limit) |-> Range(get_values(group, a))])

\* The user's id is appended to the group's, whether it is there or not; the
\* group's is to the user's only if it is not.
establish_relation(m, groups) ==
    /\ generated' = [groups EXCEPT ![uuid_of(m)].members = Append(@, <<m.type, m.user>>)]
    /\ relations' = relations \cup {<<m.user, uuid_of(m)>>}

ForMatch(m) ==
    /\ generating = "groups" /\ matches # <<>>
    /\ m = Head(matches)
    /\ matches' = Tail(matches)
    /\ UNCHANGED <<generating, from_types, user_list, groupFrame>>

\* Mutated form: a group that was refused can be made from another value.
Refused_TryAgain(uuid) == FALSE

RefusedBefore(uuid) == uuid \in dont_try_again

SkipGroup ==
    \E m \in Range(matches) :
        /\ ForMatch(m)
        /\ RefusedBefore(uuid_of(m))
        /\ UNCHANGED <<generated, dont_try_again, relations>>

JoinGroup ==
    \E m \in Range(matches) :
        /\ ForMatch(m)
        /\ ~RefusedBefore(uuid_of(m)) /\ uuid_of(m) \in DOMAIN generated
        /\ establish_relation(m, generated)
        /\ UNCHANGED dont_try_again

GenerateGroup ==
    \E m \in Range(matches) :
        /\ ForMatch(m)
        /\ ~RefusedBefore(uuid_of(m)) /\ uuid_of(m) \notin DOMAIN generated
        /\ IsIncluded(GroupFrom(m))
        /\ establish_relation(m, With(generated, uuid_of(m), [attributes |-> GroupFrom(m), members |-> <<>>]))
        /\ UNCHANGED dont_try_again

RefuseGroup ==
    \E m \in Range(matches) :
        /\ ForMatch(m)
        /\ ~RefusedBefore(uuid_of(m)) /\ uuid_of(m) \notin DOMAIN generated
        /\ ~IsIncluded(GroupFrom(m))
        /\ dont_try_again' = dont_try_again \cup {uuid_of(m)}
        /\ UNCHANGED <<generated, relations>>

GroupsGenerated ==
    /\ UserIsDone /\ user_list = {} /\ from_types = <<>>
    /\ generating' = "activities"
    /\ student_groups' = DOMAIN generated
    /\ UNCHANGED <<generate, users, employments, from_types, user_list, matches, generated,
                   dont_try_again, relations, activities>>

-----------------------------------------------------------------------------
\* Activities.

\* The group's school unit, which load_related finds, if there is one.
UnitOf(group) == Among(get_values(group.attributes, "unit"), Units)

Teachers(group) ==
    LET members == Among(group.members, {m \in Range(group.members) : m[1] = "Teacher"})
    IN  [n \in DOMAIN members |-> members[n][2]]

\* Mutated form: the first employment, wherever it is.
Proper_Any(teacher, group) == {e \in employments : e.teacher = teacher}

\* The employments of which the first is taken for a teacher: those at the
\* group's school unit or, if there are none, any.
Proper(teacher, group) ==
    LET all == {e \in employments : e.teacher = teacher}
        at_unit == {e \in all : UnitOf(group) # <<>> /\ e.unit = UnitOf(group)[1]}
    IN  IF at_unit # {} THEN at_unit ELSE all

Working(group) == Among(Teachers(group), {t \in Range(Teachers(group)) : Proper(t, group) # {}})

\* A group without a school unit has no Activity.
get_generated_activity ==
    /\ generating = "activities"
    /\ \E uuid \in student_groups :
          LET group   == generated[uuid]
              working == Working(group)
          IN  /\ student_groups' = student_groups \ {uuid}
              /\ IF UnitOf(group) = <<>> THEN UNCHANGED activities
                 ELSE \E first \in [Range(working) -> employments] :
                        /\ \A t \in Range(working) : first[t] \in Proper(t, group)
                        /\ activities' = With(activities, uuid, [n \in DOMAIN working |-> first[working[n]]])
    /\ UNCHANGED <<generating, generate, users, employments, from_types, user_list, matches,
                   generated, dont_try_again, relations>>

ActivitiesGenerated ==
    /\ generating = "activities" /\ student_groups = {}
    /\ generating' = "done"
    /\ UNCHANGED <<generate, users, employments, from_types, user_list, matches, generated,
                   dont_try_again, relations, activities, student_groups>>

-----------------------------------------------------------------------------

NothingGenerated ==
    /\ from_types = <<>> /\ user_list = {} /\ matches = <<>> /\ generated = <<>>
    /\ dont_try_again = {} /\ relations = {} /\ activities = <<>> /\ student_groups = {}

GroupsIdle ==
    generating = "idle" /\ generate = <<>> /\ users = <<>> /\ employments = {} /\ NothingGenerated

GroupsInit ==
    /\ generating = "started"
    /\ generate \in GenerateConfigs
    /\ users \in UserLists
    /\ employments \in EmploymentLists
    /\ NothingGenerated

GroupsNext ==
    \/ parse_student_group_attributes
    \/ NextType
    \/ NextUser
    \/ SkipGroup
    \/ JoinGroup
    \/ GenerateGroup
    \/ RefuseGroup
    \/ GroupsGenerated
    \/ get_generated_activity
    \/ ActivitiesGenerated

GroupsSpec == GroupsInit /\ [][GroupsNext]_groupVars

-----------------------------------------------------------------------------
\* Properties.

\* <<type, user, specification, value>> that say that a user belongs to a group.
Memberships ==
    UNION {UNION {{<<t, u, n, v>> : v \in {w \in Range(get_values(users[t][u], generate.attributes[n].from)) :
                                              regex_match(w, generate.attributes[n].match)}} :
                     u \in UsersOf(t), n \in DOMAIN generate.attributes} : t \in FromTypes}

Names(membership) ==
    regex_replace(membership[4], generate.attributes[membership[3]],
                  generate.attributes[membership[3]].uuid)

Ids == {Names(m) : m \in Memberships}
MembersOf(id) == {<<m[1], m[2]>> : m \in {k \in Memberships : Names(k) = id}}

\* A group has all that belong to it, also those who came before the value that
\* it was made from, or it is not there and nobody has been told of it.
GroupsAsMeant ==
    /\ DOMAIN generated \subseteq Ids
    /\ \A id \in Ids :
          /\ id \in DOMAIN generated => Range(generated[id].members) = MembersOf(id)
          /\ {r[1] : r \in {k \in relations : k[2] = id}} =
                 IF id \in DOMAIN generated THEN {m[2] : m \in MembersOf(id)} ELSE {}
          /\ id \notin DOMAIN generated => generate.limit # NoLimit

\* A group at a school unit has an Activity, with one employment of each of its
\* teachers who have any, at that school unit if they have one there.
ActivitiesAsMeant ==
    /\ DOMAIN activities = {id \in DOMAIN generated : UnitOf(generated[id]) # <<>>}
    /\ \A id \in DOMAIN activities :
          /\ {e.teacher : e \in Range(activities[id])} =
                 {m[2] : m \in {k \in MembersOf(id) : k[1] = "Teacher"}}
                 \cap {e.teacher : e \in employments}
          /\ \A e, f \in Range(activities[id]) : e.teacher = f.teacher => e = f
          /\ \A e \in Range(activities[id]), f \in employments :
                f.teacher = e.teacher /\ <<f.unit>> = UnitOf(generated[id]) => e.unit = f.unit

\* In whatever order users come, whichever of their values a group is made from
\* and whatever the limiter thinks of the others, the groups and their Activities
\* are complete (get_generated_student_group, get_generated_activity): a member who
\* is missing is one whom the next run adds and a later one removes again.
GeneratedAsMeant == generating = "done" => GroupsAsMeant /\ ActivitiesAsMeant

\* The inductive invariant behind it.  Of a membership, the type, the user or the
\* value is still to come, or the user is in the group and told of it, or the group
\* is one that the limiter refused.
MatchFor(m) == Match(m[1], m[2], generate.attributes[m[3]], m[4])

Pending(m) ==
    m[1] \in Range(from_types) \/ <<m[1], m[2]>> \in user_list \/ MatchFor(m) \in Range(matches)

IsMember(m) ==
    /\ Names(m) \in DOMAIN generated
    /\ <<m[1], m[2]>> \in Range(generated[Names(m)].members)
    /\ <<m[2], Names(m)>> \in relations

QueuesAsMeant ==
    /\ IsList(from_types) /\ Range(from_types) \subseteq FromTypes
    /\ \A member \in user_list : member[1] \in FromTypes /\ member[2] \in UsersOf(member[1])
                                 /\ member = <<member[1], member[2]>>
    /\ IsList(matches) /\ Range(matches) \subseteq {MatchFor(m) : m \in Memberships}

\* A group has only members who belong to it, and only they are told.
MembersAsMeant ==
    /\ \A id \in DOMAIN generated :
          /\ id \in Ids /\ "members" \in DOMAIN generated[id] /\ IsList(generated[id].members)
          /\ Range(generated[id].members) \subseteq MembersOf(id)
    /\ \A r \in relations : \E m \in Memberships :
          Names(m) \in DOMAIN generated /\ r = <<m[2], Names(m)>>

RefusedAsMeant ==
    /\ dont_try_again \cap DOMAIN generated = {}
    /\ dont_try_again # {} => generate.limit # NoLimit

\* The Activity of a group, put together from those who are its members.
ActivityAsMeant(id) ==
    /\ {e.teacher : e \in Range(activities[id])} =
           {m[2] : m \in {k \in Range(generated[id].members) : k[1] = "Teacher"}}
           \cap {e.teacher : e \in employments}
    /\ \A e, f \in Range(activities[id]) : e.teacher = f.teacher => e = f
    /\ \A e \in Range(activities[id]) : e \in Proper(e.teacher, generated[id])

GroupsInv ==
    /\ generate \in GenerateConfigs /\ users \in UserLists
    /\ QueuesAsMeant /\ MembersAsMeant /\ RefusedAsMeant
    /\ generating \in {"started", "groups", "activities", "done", "failed"}
    /\ generating # "started" => \A m \in Memberships : Pending(m) \/ IsMember(m) \/ Names(m) \in dont_try_again
    /\ generating \in {"started", "groups", "failed"} => student_groups = {} /\ activities = <<>>
    /\ generating \in {"activities", "done"} =>
          /\ from_types = <<>> /\ user_list = {} /\ matches = <<>>
          /\ student_groups \subseteq DOMAIN generated
          /\ DOMAIN activities =
                 {id \in DOMAIN generated \ student_groups : UnitOf(generated[id]) # <<>>}
          /\ \A id \in DOMAIN activities : ActivityAsMeant(id)
    /\ generating = "done" => student_groups = {}
=============================================================================
