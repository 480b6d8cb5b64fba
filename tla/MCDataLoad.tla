------------------------------ MODULE MCDataLoad ------------------------------
(***************************************************************************)
(* Small instances of DataLoad: school units, groups, persons and the      *)
(* Employments generated from them.  The configurations are those of       *)
(* master_config and test/configs cut down to four types: everything from  *)
(* LDAP with persons found from groups, everything from tables, and a      *)
(* chain of LDAP relations with only the groups in the load order.         *)
(***************************************************************************)
EXTENDS DataLoad, TLC

CONSTANTS unit, group, person, emp, u1, p1, p2, g1, g2, ku, k1, k2, none

NoRefs == [t \in Type |-> <<>>]

Unit(i, keys) == [id |-> i, key |-> keys, refs |-> NoRefs, included |-> TRUE]
Person(i, keys, units, inc) ==
    [id |-> i, key |-> keys, refs |-> [NoRefs EXCEPT ![unit] = units], included |-> inc]
Group(i, persons, units) ==
    [id |-> i, key |-> {}, refs |-> [NoRefs EXCEPT ![unit] = units, ![person] = persons],
     included |-> TRUE]

By(t, method, require) == [type |-> t, method |-> method, require |-> require]

Base ==
    [order |-> <<unit, group, emp>>,
     kind |-> [t \in Type |-> IF t = emp THEN "generated" ELSE "ldap"],
     relations |-> [t \in Type |->
        IF t = group THEN <<By(person, "ldap", FALSE), By(unit, "object", TRUE)>> ELSE <<>>],
     orphan |-> [t \in Type |-> CASE t = person -> {group} [] t = group -> {person} [] OTHER -> {}],
     master |-> person, remote |-> unit, filterFirst |-> {emp}]

\* Everything is read as a table, the persons before the groups; nothing says
\* where to load the fourth type from.
Tables ==
    [Base EXCEPT !.order = <<unit, person, group, emp>>,
                 !.kind = [t \in Type |-> IF t = emp THEN "generated" ELSE "table"],
                 !.relations[group] = <<By(person, "object", FALSE), By(unit, "object", TRUE)>>]
Unset == [Tables EXCEPT !.kind[emp] = "none"]

\* Groups lead to persons and these to their units.
Chain ==
    [Base EXCEPT !.order = <<group, emp>>,
                 !.relations[group] = <<By(person, "ldap", TRUE)>>,
                 !.relations[person] = <<By(unit, "ldap", TRUE)>>,
                 !.orphan = [t \in Type |-> {}]]

MCConfigs == {Base, Tables, Unset, Chain}

PersonLists ==
    {<<Person(p1, {k1}, <<ku>>, TRUE), Person(p2, {k2}, <<>>, TRUE)>>,
     <<Person(p1, {k1}, <<ku, none>>, TRUE), Person(p2, {k2}, <<ku>>, FALSE)>>,
     \* k2 is ambiguous.
     <<Person(p1, {k2}, <<ku>>, TRUE), Person(p2, {k2}, <<ku>>, TRUE)>>,
     \* The same id twice.
     <<Person(p1, {k1}, <<ku>>, TRUE), Person(p1, {k1, k2}, <<>>, TRUE)>>}

\* A unit that has the id of a person, one that two values find, and one that
\* is there twice.
UnitLists == {<<Unit(u1, {ku})>>, <<Unit(p1, {ku})>>, <<Unit(u1, {ku, none})>>,
              <<Unit(u1, {none}), Unit(u1, {ku})>>}

References == {<<>>, <<k1>>, <<k1, k2>>, <<k2, none>>}

MCSources ==
    {[t \in Type |->
        CASE t = unit   -> units
          [] t = person -> persons
          [] t = group  -> <<Group(g1, r1, <<ku>>), Group(g2, r2, home)>>
          [] OTHER      -> <<>>] :
        units \in UnitLists, persons \in PersonLists,
        r1 \in References, r2 \in References, home \in {<<ku>>, <<none>>}}
================================================================================
