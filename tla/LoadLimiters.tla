---------------------------- MODULE LoadLimiters ----------------------------
(***************************************************************************)
(* Which objects are loaded at all: a limiter of the type, or of its       *)
(* endpoint, and the user blacklist of the command line (load_limiter.cpp, *)
(* load_limiter_impl.hpp).  Lists are files that others may rewrite while  *)
(* the client runs.                                                        *)
(*                                                                         *)
(* A limiter is the sequence of its parts in the order in which they are   *)
(* made, so that each comes after those it is put together from; the last  *)
(* is the limiter itself.  "with" is "list" (list, by), "regex" (matching, *)
(* by), "not" (child, a part), "and" or "or" (children, a set of parts),   *)
(* or something else, which is refused.                                    *)
(***************************************************************************)
EXTENDS SequencesExt

CONSTANTS
    LimitedTypes,    \* types
    Loadable,        \* objects: [uid, and each other attribute -> a set of values]
    LimiterConfigs,  \* [limit : types and endpoints -> a limiter or NoLimit,
                     \*  endpoint : types -> endpoint, blacklist : list or NoLimit]
    Lists            \* [file -> its values]: what the files may hold

\* What stands for a limiter, or a blacklist, that is not configured.
NoLimit == <<[with |-> "none"]>>

IsLimiter(l) ==
    /\ l \in Seq(Range(l)) /\ l # <<>>
    /\ \A n \in DOMAIN l :
          /\ l[n].with = "not" => l[n].child \in 1..n - 1
          /\ l[n].with \in {"and", "or"} => l[n].children \subseteq 1..n - 1

\* Each type has an endpoint, which may have a limiter too; the blacklist is a list.
AreLimits(c) ==
    /\ \A t \in LimitedTypes : IsLimiter(c.limit[t]) /\ IsLimiter(c.limit[c.endpoint[t]])
    /\ IsLimiter(c.blacklist)
    /\ c.blacklist # NoLimit => \A n \in DOMAIN c.blacklist : c.blacklist[n].with = "list"

ASSUME LimiterAssumption == \A c \in LimiterConfigs : AreLimits(c)

VARIABLES
    limiting,        \* "started", "loading" or "failed"
    limits,          \* the configuration
    lists,           \* the files as they are now
    user_blacklist,  \* a limiter, or NoLimit
    limiters,        \* [type -> limiter]: those that have been made
    admitted,        \* [type -> objects that got through]
    \* History variables, read by the properties only.
    listsRead,       \* [type -> the files when its limiter was made]
    blacklistRead    \* the files when the blacklist was read

limiterVars == <<limiting, limits, lists, user_blacklist, limiters, admitted, listsRead, blacklistRead>>

-----------------------------------------------------------------------------
\* The limiters.

\* include: whether a part lets an object through, when it is known which of
\* those before it do, and whether a limiter does that has its lists.
Through(part, through, obj) ==
    \/ part.with = "none"
    \/ part.with = "list" /\ obj[part.by] \cap part.values # {}
    \/ part.with = "regex" /\ obj[part.by] \cap part.matching # {}
    \/ part.with = "not" /\ ~through[part.child]
    \/ part.with = "and" /\ \A n \in part.children : through[n]
    \/ part.with = "or" /\ \E n \in part.children : through[n]

include(l, obj) ==
    LET Next(through, part) == Append(through, Through(part, through, obj))
    IN  Last(FoldLeft(Next, <<>>, l))

Refused(spec) ==
    \E n \in DOMAIN spec : spec[n].with \notin {"none", "list", "regex", "not", "and", "or"}

\* list_limiter::load reads the file at once; one that cannot be read is empty.
list_limiter(part, files) == [with |-> "list", by |-> part.by, values |-> files[part.list]]

not_limiter(l) == Append(l, [with |-> "not", child |-> Len(l)])

\* A part of a limiter that is put after so many others.
After(part, others) ==
    CASE part.with = "not" -> [with |-> "not", child |-> part.child + others]
      [] part.with \in {"and", "or"} ->
             [with |-> part.with, children |-> {n + others : n \in part.children}]
      [] OTHER -> part

and_limiter(l, k) ==
    l \o [n \in DOMAIN k |-> After(k[n], Len(l))]
      \o <<[with |-> "and", children |-> {Len(l), Len(l) + Len(k)}]>>

create_limiter_from_json(spec, files) ==
    [n \in DOMAIN spec |-> IF spec[n].with = "list" THEN list_limiter(spec[n], files) ELSE spec[n]]

\* The type's own setting goes before that of its endpoint.
LimitOf(type) ==
    IF limits.limit[type] # NoLimit THEN limits.limit[type] ELSE limits.limit[limits.endpoint[type]]

create_limiter(type, files) == create_limiter_from_json(LimitOf(type), files)

\* Mutated form: a type with a limiter of its own escapes the blacklist.
combine_with_user_blacklist_Own(type, l) ==
    IF user_blacklist = NoLimit \/ limits.limit[type] # NoLimit THEN l
    ELSE and_limiter(l, user_blacklist)

combine_with_user_blacklist(type, l) ==
    IF user_blacklist = NoLimit THEN l
    ELSE and_limiter(l, user_blacklist)

NewLimiter(type, files) ==
    IF limits.endpoint[type] = "Users"
    THEN combine_with_user_blacklist(type, create_limiter(type, files))
    ELSE create_limiter(type, files)

\* Mutated form: the limiter is made anew each time.
get_limiter_Anew(type) == NewLimiter(type, lists)

get_limiter(type) == IF type \in DOMAIN limiters THEN limiters[type] ELSE NewLimiter(type, lists)

-----------------------------------------------------------------------------
\* One run of the client.

blacklist_limiter(files) ==
    IF limits.blacklist = NoLimit THEN NoLimit
    ELSE not_limiter(create_limiter_from_json(limits.blacklist, files))

set_user_blacklist ==
    /\ limiting = "started"
    /\ user_blacklist' = blacklist_limiter(lists)
    /\ blacklistRead' = lists
    /\ limiting' = "loading"
    /\ UNCHANGED <<limits, lists, limiters, admitted, listsRead>>

\* A type is loaded, or again as the remote end of a relation.
filter_objects ==
    \E type \in LimitedTypes :
        /\ limiting = "loading"
        /\ ~Refused(LimitOf(type))
        /\ LET l == get_limiter(type)
           IN  /\ limiters' = [t \in DOMAIN limiters \cup {type} |->
                                  IF t = type THEN l ELSE limiters[t]]
               /\ admitted' = [admitted EXCEPT ![type] = @ \cup {o \in Loadable : include(l, o)}]
        /\ listsRead' = [listsRead EXCEPT ![type] = IF type \in DOMAIN limiters THEN @ ELSE lists]
        /\ UNCHANGED <<limiting, limits, lists, user_blacklist, blacklistRead>>

\* A kind of limiter that there is not ends the run.
LimiterIsRefused ==
    \E type \in LimitedTypes :
        /\ limiting = "loading"
        /\ Refused(LimitOf(type))
        /\ limiting' = "failed"
        /\ UNCHANGED <<limits, lists, user_blacklist, limiters, admitted, listsRead, blacklistRead>>

\* Others rewrite the files.
ListsChange ==
    /\ limiting \in {"started", "loading"}
    /\ lists' \in Lists \ {lists}
    /\ UNCHANGED <<limiting, limits, user_blacklist, limiters, admitted, listsRead, blacklistRead>>

-----------------------------------------------------------------------------

NothingAdmitted == [t \in LimitedTypes |-> {}]

LimitersIdle ==
    /\ limiting = "idle" /\ limits = NoLimit /\ lists = <<>> /\ user_blacklist = NoLimit
    /\ limiters = <<>> /\ admitted = NothingAdmitted
    /\ listsRead = <<>> /\ blacklistRead = <<>>

LimitersInit ==
    /\ limiting = "started"
    /\ limits \in LimiterConfigs
    /\ lists \in Lists
    /\ user_blacklist = NoLimit
    /\ limiters = <<>>
    /\ admitted = NothingAdmitted
    /\ listsRead = [t \in LimitedTypes |-> lists]
    /\ blacklistRead = lists

LimitersNext == set_user_blacklist \/ filter_objects \/ LimiterIsRefused \/ ListsChange

LimitersSpec == LimitersInit /\ [][LimitersNext]_limiterVars

-----------------------------------------------------------------------------
\* Properties.

\* The objects that a limiter is meant to let through, with such files: those of
\* a part, when it is known which those of the parts before it are, and all.
MeantBy(part, meant, files) ==
    CASE part.with = "none"  -> Loadable
      [] part.with = "list"  -> {o \in Loadable : \E v \in files[part.list] : v \in o[part.by]}
      [] part.with = "regex" -> {o \in Loadable : \E v \in part.matching : v \in o[part.by]}
      [] part.with = "not"   -> Loadable \ meant[part.child]
      [] part.with = "and"   -> {o \in Loadable : \A n \in part.children : o \in meant[n]}
      [] OTHER               -> {o \in Loadable : \E n \in part.children : o \in meant[n]}

Meant(spec, files) ==
    LET Next(meant, part) == Append(meant, MeantBy(part, meant, files))
    IN  Last(FoldLeft(Next, <<>>, spec))

\* However often a type is loaded and whenever its files are rewritten, it has the
\* objects that its limiter let through when it was first asked, less the users
\* who were on the blacklist when the run began, whatever limits the type has of
\* its own (get_limiter, doc/USAGE.md "Blacklisting users").
LimitedAsMeant ==
    \A t \in DOMAIN limiters :
        admitted[t] =
            Meant(LimitOf(t), listsRead[t])
            \ (IF limits.endpoint[t] = "Users" /\ limits.blacklist # NoLimit
               THEN Meant(limits.blacklist, blacklistRead) ELSE {})

\* The inductive invariant behind it: a limiter is what it was made to be when
\* its type was first loaded, with the blacklist as it was before that.
LimitersInv ==
    /\ limits \in LimiterConfigs
    /\ limiting = "started" => DOMAIN limiters = {}
    /\ limiting # "started" => user_blacklist = blacklist_limiter(blacklistRead)
    /\ DOMAIN limiters \subseteq LimitedTypes
    /\ DOMAIN admitted = LimitedTypes /\ DOMAIN listsRead = LimitedTypes
    /\ \A t \in DOMAIN limiters :
          /\ ~Refused(LimitOf(t))
          /\ limiters[t] = NewLimiter(t, listsRead[t])
          /\ admitted[t] = {o \in Loadable : include(limiters[t], o)}
    /\ \A t \in LimitedTypes \ DOMAIN limiters : admitted[t] = {}
=============================================================================
