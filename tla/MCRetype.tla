------------------------------- MODULE MCRetype -------------------------------
(***************************************************************************)
(* An instance of ScimSync where an id may change its type: a person that  *)
(* the data source has as a student or as a teacher, both at the Users     *)
(* endpoint, in the send order of master_config/master.conf.               *)
(***************************************************************************)
EXTENDS ScimSyncInv, TLC

CONSTANTS person, other, Student, Teacher, Users, asStudent, asTeacher

MCEndpointOf == (Student :> Users) @@ (Teacher :> Users)

MCReferences == (asStudent :> {}) @@ (asTeacher :> {})

PersonForms == {[type |-> Student, json |-> asStudent],
                [type |-> Teacher, json |-> asTeacher], Absent}

MCSourceStates == [Uid -> PersonForms]

MCRuns == {[order |-> (Student :> 1) @@ (Teacher :> 2), blocked |-> {},
            rebuild |-> FALSE, skip_load |-> FALSE, skip_thresholds |-> FALSE,
            force_update |-> {}, force_create |-> {}]}

NoThresholds == [t \in Type \cup {"Object"} |-> NoThreshold]
NoRounding == {}
=============================================================================
