------------------------------ MODULE MCScimSync ------------------------------
(***************************************************************************)
(* Small instances of ScimSync.  Two units and a group whose body refers   *)
(* to one of the units; units are sent before groups.                      *)
(***************************************************************************)
EXTENDS ScimMirror, ScimCompleteInv, TLC

CONSTANTS unit1, unit2, group, Unit, Group, Units, Groups,
          unitBody, refers1, refers2

MCEndpointOf == (Unit :> Units) @@ (Group :> Groups)

MCReferences == (unitBody :> {}) @@ (refers1 :> {unit1}) @@ (refers2 :> {unit2} \cap Uid)

\* The data source never has a group without the unit it refers to.
UnitForms == {[type |-> Unit, json |-> unitBody], Absent}
GroupForms == {[type |-> Group, json |-> refers1], [type |-> Group, json |-> refers2], Absent}

MCSourceStates ==
    {s \in [Uid -> UnitForms \cup GroupForms] :
        \A u \in Uid : /\ s[u] \in IF u = group THEN GroupForms ELSE UnitForms
                       /\ s[u] # Absent => \A v \in References[s[u].json] : s[v] # Absent}

-----------------------------------------------------------------------------
\* Command lines.

Normal == [order |-> (Unit :> 1) @@ (Group :> 2), blocked |-> {}, rebuild |-> FALSE,
           skip_load |-> FALSE, skip_thresholds |-> FALSE,
           force_update |-> {}, force_create |-> {}]

SkipLoad == [Normal EXCEPT !.skip_load = TRUE]
ForceUpdate == [Normal EXCEPT !.force_update = {group}]
ForceCreate == [Normal EXCEPT !.force_create = {group}]
Rebuild == [Normal EXCEPT !.rebuild = TRUE]

NormalRuns == {Normal}
DailyRuns == {Normal, SkipLoad, ForceUpdate}
RepairRuns == {Normal, Rebuild, ForceCreate}
RebuildOnly == {Rebuild}

-----------------------------------------------------------------------------
\* Thresholds and faults.

NoThresholds == [t \in Type \cup {"Object"} |-> NoThreshold]
UnitShare == [NoThresholds EXCEPT ![Unit] = 100]
OneObject == [NoThresholds EXCEPT !["Object"] = 1]

NoRounding == {}

\* What the theorems take for granted is so in all these instances.
ASSUME MCAssumption ==
    TypesFixed /\ AllTypesSent /\ RepairsUndisturbed /\ ReferencesInOrder
=============================================================================
