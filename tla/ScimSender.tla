------------------------------ MODULE ScimSender ------------------------------
(***************************************************************************)
(* scim_sender: one HTTP request at a time to the SCIM server, the count   *)
(* of requests that timed out, and the aborted state in which the sender   *)
(* answers for the server without asking it.                               *)
(*                                                                         *)
(* The server is external.  It is modelled by what the client expects of   *)
(* it (RFC 7644): one resource per endpoint and id, a POST of an id it has *)
(* is a conflict, a PUT or DELETE of an id it lacks is "not found", and    *)
(* any other status leaves it as it was.                                   *)
(***************************************************************************)
EXTENDS RenderedObjects, Integers, FiniteSets

CONSTANTS
    Endpoint,    \* SCIM resource endpoints (Users, SchoolUnits, ...)
    http_max_acceptable_timeouts,
    Faults,      \* the kinds of failure that may happen
    MaxFaults,   \* bound: how many failures happen in a behaviour
    MaxLate      \* bound: requests that timed out and are still on their way

ASSUME SenderAssumption ==
    /\ http_max_acceptable_timeouts \in Int
    /\ MaxFaults \in Nat
    /\ MaxLate \in Nat

VARIABLES
    server,              \* [Endpoint -> [Uid -> Json or Absent]]
    late,                \* requests given up by the client, not yet handled
    number_of_timeouts,
    aborted,
    faults               \* failures so far (bounds the model)

senderVars == <<server, late, number_of_timeouts, aborted, faults>>

Request == [op: {"POST", "PUT", "DELETE"}, endpoint: Endpoint, uid: Uid,
            json: Json \cup {Absent}]

\* What a request comes back as: the status classes send_create, send_update
\* and send_delete tell apart, the curl failures, and "aborted" when the
\* request is not made at all.
Outcome == {"ok", "conflict", "missing", "error",
            "timeout", "refused", "broken", "aborted"}

\* Outcomes that tell the client what the server now holds.
Definite(out) == out \in {"ok", "conflict", "missing"}

\* Outcomes that leave the client not knowing whether the request was handled.
Unknown(out) == out \in {"timeout", "broken"}

SenderTypeOK ==
    /\ server \in [Endpoint -> [Uid -> Json \cup {Absent}]]
    /\ late \subseteq Request
    /\ number_of_timeouts \in Nat
    /\ aborted \in BOOLEAN
    /\ faults \in Nat

SenderInit ==
    /\ server = [e \in Endpoint |-> [u \in Uid |-> Absent]]
    /\ late = {}
    /\ number_of_timeouts = 0
    /\ aborted = FALSE
    /\ faults = 0

Fault(kind) ==
    /\ kind \in Faults
    /\ faults < MaxFaults
    /\ faults' = faults + 1

-----------------------------------------------------------------------------
\* The server.

Holds(e, u) == server[e][u] # Absent

Respond(req) ==
    IF req.op = "POST"
    THEN IF Holds(req.endpoint, req.uid) THEN "conflict" ELSE "ok"
    ELSE IF Holds(req.endpoint, req.uid) THEN "ok" ELSE "missing"

\* The server's contents once it has handled req.
Handled(req) ==
    IF Respond(req) = "ok"
    THEN [server EXCEPT ![req.endpoint] =
             [@ EXCEPT ![req.uid] = IF req.op = "DELETE" THEN Absent ELSE req.json]]
    ELSE server

\* A request the client gave up on reaches the server after all, or never does.
LateArrival(req) ==
    /\ req \in late
    /\ server' = Handled(req)
    /\ late' = late \ {req}
    /\ UNCHANGED <<number_of_timeouts, aborted, faults>>

LateLost(req) ==
    /\ req \in late
    /\ late' = late \ {req}
    /\ UNCHANGED <<server, number_of_timeouts, aborted, faults>>

\* Somebody else writes to the server.
ServerChangedByOthers(e, u) ==
    /\ Fault("foreign")
    /\ \E j \in (Json \cup {Absent}) \ {server[e][u]} :
           server' = [server EXCEPT ![e] = [@ EXCEPT ![u] = j]]
    /\ UNCHANGED <<late, number_of_timeouts, aborted>>

-----------------------------------------------------------------------------
\* The sender.

send_init ==
    /\ number_of_timeouts' = 0
    /\ aborted' = FALSE

register_timeout ==
    /\ number_of_timeouts' = number_of_timeouts + 1
    /\ aborted' = (aborted \/ number_of_timeouts + 1 > http_max_acceptable_timeouts)

\* curl_easy_perform fails: the operation timed out, it failed in a way that
\* makes later requests pointless, or the connection broke half-way.
CurlFails(req, out) ==
    \/ /\ out = "timeout"
       /\ Fault("timeout")
       /\ Cardinality(late) < MaxLate
       /\ late' = late \cup {req}
       /\ register_timeout
    \/ /\ out = "refused"
       /\ Fault("refused")
       /\ aborted' = TRUE
       /\ UNCHANGED <<late, number_of_timeouts>>
    \/ /\ out = "broken"
       /\ Fault("broken")
       /\ Cardinality(late) < MaxLate
       /\ late' = late \cup {req}
       /\ UNCHANGED <<number_of_timeouts, aborted>>

\* send_create, send_update and send_delete: one attempt, never repeated.
Send(req, out) ==
    \/ /\ aborted
       /\ out = "aborted"
       /\ UNCHANGED senderVars
    \/ /\ ~aborted
       /\ out = Respond(req)
       /\ server' = Handled(req)
       /\ UNCHANGED <<late, number_of_timeouts, aborted, faults>>
    \/ /\ ~aborted
       /\ out = "error"
       /\ Fault("error")
       /\ UNCHANGED <<server, late, number_of_timeouts, aborted>>
    \/ /\ ~aborted
       /\ CurlFails(req, out)
       /\ UNCHANGED server
=============================================================================
