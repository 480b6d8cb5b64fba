------------------------------ MODULE ScimMirror ------------------------------
(***************************************************************************)
(* The client implements Mirror: how what Mirror speaks of is found in the *)
(* client's state.                                                         *)
(***************************************************************************)
EXTENDS ScimSyncInv

Places == Endpoint \X Uid

\* A view is told from the lack of one.
ASSUME MirrorAssumption == Absent \notin [Places -> Json \cup {Absent}]

\* A list of objects as the bodies that it puts at places.
AtPlaces(list) ==
    [p \in Places |->
        IF list[p[2]] # Absent /\ EndpointOf[list[p[2]].type] = p[1] THEN list[p[2]].json
        ELSE Absent]

ServerPlaces == [p \in Places |-> server[p[1]][p[2]]]

\* What a run goes by is the list it has loaded.
RunView == IF pc = "idle" THEN Absent ELSE AtPlaces(current)

\* Where u lives as it was loaded.
CurrentPlace(u) == <<EndpointOf[current[u].type], u>>

SettledPlaces == swept \cup {CurrentPlace(u) : u \in handled}

\* The write that a request amounts to, whatever its kind.
AsWrite(req) == [place |-> <<req.endpoint, req.uid>>,
                 body |-> IF req.op = "DELETE" THEN Absent ELSE req.json]

LateWrites == {AsWrite(req) : req \in late}

Mirroring == INSTANCE Mirror WITH
    Place <- Places,
    Contents <- {AtPlaces(s) : s \in SourceStates},
    Body <- Json,
    Nothing <- Absent,
    actual <- AtPlaces(source),
    held <- ServerPlaces,
    view <- RunView,
    settled <- SettledPlaces,
    delayed <- LateWrites,
    disturbances <- faults

\* In a run each place of the server is written at most once, to what the data
\* source had when the run loaded it, whatever the cache file says, whichever
\* requests fail or come late and wherever the run stops (perform,
\* process_changes, process_deletes).  It is what process_deletes breaks for an
\* object that changes its type within an endpoint: see MCRetype.
ImplementsMirror == Mirroring!MirrorSpec
=============================================================================
