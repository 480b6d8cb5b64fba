--------------------------- MODULE ScimCompleteProofs ---------------------------
(***************************************************************************)
(* Nothing on the server is forgotten, and a run that ends well leaves the *)
(* server as it should be: CacheIsComplete, CleanRunMirrors, RebuildSettles*)
(* and FailedDeletesAreKept, for the command lines that ScimCompleteInv    *)
(* describes, and StatusTellsCache.  They rest on PhaseInv, which says     *)
(* what the phases of a run leave for each other and comes first.          *)
(* The last part is about runs that nothing goes wrong in: the order of    *)
(* the types keeps references whole, so that no object on the server ever  *)
(* refers to one the server has not (ReferencesResolve), where no run      *)
(* rebuilds the cache or creates objects again; and thresholds bound what  *)
(* a run changes (ThresholdBoundsChange).                                  *)
(***************************************************************************)
EXTENDS ScimCompleteInv, ScimSyncProofs, FiniteSetTheorems

USE DEF SourceObject

-----------------------------------------------------------------------------
\* Lemmas about one request.

\* An id has one home: where the type lives that any list has it with.
LEMMA OneHome ==
    ASSUME TypesFixed, NEW u \in Uid, NEW obj, obj # Absent, TypedAsSource(obj, u)
    PROVE  HomesOf(u) = {EndpointOf[obj.type]}
BY DEF TypesFixed, TypedAsSource, HomesOf

LEMMA HomesAreEndpoints ==
    ASSUME NEW u \in Uid
    PROVE  HomesOf(u) \subseteq Endpoint
BY SyncAssumption DEF HomesOf

\* What a request comes to, beside what it does to the server (SendEffect).
LEMMA SendAnswer ==
    ASSUME SenderTypeOK, NEW req \in Request, NEW out \in Outcome, Send(req, out)
    PROVE  /\ out = "missing" => req.op # "POST" /\ ~Holds(req.endpoint, req.uid)
           /\ out = "conflict" => req.op = "POST"
           /\ \A r \in late' : r \in late \/ r = req
           /\ out = "error" => "error" \in Faults
           /\ out = "refused" => "refused" \in Faults
           /\ out = "aborted" => aborted
BY DEF Send, CurlFails, Respond, Fault, Outcome, senderVars

\* A request to write obj's body at its home, and what it did.
Written(obj, u, out) ==
    LET home == EndpointOf[obj.type]
    IN  /\ \A e \in Endpoint, v \in Uid :
               e # home \/ v # u => server'[e][v] = server[e][v]
        /\ out = "ok" => server'[home][u] = obj.json
        /\ out # "ok" => server' = server
        /\ \A r \in late' : r \in late \/ (r.endpoint = home /\ r.uid = u)
        /\ out = "missing" => ~Holds(home, u)
        /\ out = "error" => "error" \in Faults
        /\ out = "refused" => "refused" \in Faults
        /\ out = "aborted" => aborted

\* A request to delete u at home, and what it did.
Erased(home, u, out) ==
    /\ \A e \in Endpoint, v \in Uid :
           e # home \/ v # u => server'[e][v] = server[e][v]
    /\ out = "ok" => server'[home][u] = Absent
    /\ out # "ok" => server' = server
    /\ \A r \in late' : r \in late \/ (r.endpoint = home /\ r.uid = u)
    /\ out # "conflict"
    /\ out = "missing" => ~Holds(home, u)
    /\ out = "error" => "error" \in Faults
    /\ out = "refused" => "refused" \in Faults
    /\ out = "aborted" => aborted

LEMMA EraseEffect ==
    ASSUME SenderTypeOK, NEW home \in Endpoint, NEW u \in Uid, NEW out \in Outcome,
           Send([op |-> "DELETE", endpoint |-> home, uid |-> u, json |-> Absent], out)
    PROVE  Erased(home, u, out)
<1> DEFINE req == [op |-> "DELETE", endpoint |-> home, uid |-> u, json |-> Absent]
<1>1. req \in Request /\ req.endpoint = home /\ req.uid = u /\ req.op = "DELETE" /\ Send(req, out)
  BY DEF Request
<1> HIDE DEF req
<1> QED
  BY <1>1, SendEffect, SendAnswer DEF Erased

\* process_changes, one create or update.
LEMMA ChangeEffect ==
    ASSUME SyncTypeOK, AccuracyInv, NEW u \in Uid, NEW out \in Outcome,
           CreateObject(u, out) \/ UpdateObject(u, out)
    PROVE  /\ pc = "changes" /\ swept = {} /\ u \notin handled /\ IsSent(u) /\ IsCurrent(u)
           /\ pre_rendered[u] = current[u] /\ current[u] \in SourceObject
           /\ current[u] # Absent /\ current[u].type \in Type /\ current[u].json \in Json
           /\ EndpointOf[current[u].type] \in Endpoint
           /\ Written(current[u], u, out)
           /\ CreateObject(u, out) => out # "missing"
           /\ UpdateObject(u, out) => out # "conflict"
           /\ UNCHANGED <<cacheFile, pc, run, current, cached, all_scim_objects, queried,
                          pre_rendered, swept, cacheFileState, statusFile>>
           /\ handled' = handled \cup {u}
           /\ RecordOutcome(u, out)
<1> DEFINE obj == pre_rendered[u]
           home == EndpointOf[obj.type]
<1>1. /\ pc = "changes" /\ swept = {} /\ u \notin handled /\ IsSent(u) /\ IsCurrent(u)
      /\ UNCHANGED <<cacheFile, pc, run, current, cached, all_scim_objects, queried,
                     pre_rendered, swept, cacheFileState, statusFile>>
      /\ handled' = handled \cup {u}
      /\ RecordOutcome(u, out)
  BY DEF CreateObject, UpdateObject, ChangeFrame, ChangeIsNext, ToChange, IsSent,
         AccuracyInv, QuietAtFirst
<1>2. obj = current[u] /\ obj \in SourceObject
  BY SourceObjectIsRendered
     DEF CreateObject, UpdateObject, Rendered, SyncTypeOK, AccuracyInv, ListsTyped
<1>3. obj # Absent /\ obj.type \in Type /\ obj.json \in Json /\ home \in Endpoint
  <2>1. obj.type \in Type /\ obj.json \in Json /\ obj # Absent
    BY <1>2, SourceObjectIsRendered
  <2> QED
    BY <2>1, SyncAssumption
<1>4. PICK req \in Request :
         /\ Send(req, out)
         /\ req.uid = u /\ req.endpoint = home
         /\ req.json = obj.json /\ req.op # "DELETE"
         /\ CreateObject(u, out) => req.op = "POST"
         /\ UpdateObject(u, out) => req.op = "PUT"
  <2>1. CreateObject(u, out) => ~UpdateObject(u, out)
    BY DEF CreateObject, UpdateObject, IsUpdate
  <2> QED
    BY <1>3, <2>1, RequestTypes DEF CreateObject, UpdateObject
<1> HIDE DEF obj
<1>5. Written(obj, u, out)
  BY <1>3, <1>4, SendEffect, SendAnswer DEF Written, SyncTypeOK
<1>6. /\ CreateObject(u, out) => out # "missing"
      /\ UpdateObject(u, out) => out # "conflict"
  BY <1>4, SendAnswer DEF SyncTypeOK
<1> QED
  BY <1>1, <1>2, <1>3, <1>5, <1>6 DEF obj

\* process_deletes.
LEMMA DeleteEffect ==
    ASSUME TypesFixed, SyncTypeOK, AccuracyInv, NEW u \in Uid, NEW out \in Outcome,
           DeleteObject(u, out)
    PROVE  LET home == EndpointOf[cached[u].type]
           IN  /\ pc = "deletes" /\ ~run.rebuild /\ u \notin handled /\ ~IsCurrent(u) /\ ~Swept(u)
               /\ cached[u] # Absent /\ cached[u] \in RenderedObject
               /\ home \in Endpoint /\ HomesOf(u) = {home}
               /\ Erased(home, u, out)
               /\ scim_new_cache[u] = Absent
               /\ scim_new_cache' = AddObject(scim_new_cache, u, AfterDelete(cached[u], out))
               /\ UNCHANGED <<cacheFile, pc, run, current, cached, all_scim_objects, queried,
                              pre_rendered, handled, cacheFileState, statusFile>>
               /\ swept' = swept \cup {<<home, u>>}
               /\ RecordOutcome(u, out)
<1> DEFINE obj == cached[u]
           home == EndpointOf[obj.type]
<1>1. /\ obj \in RenderedObject /\ obj # Absent
      /\ ~IsCurrentAs(u, obj.type) /\ <<home, u>> \notin swept /\ ~run.rebuild
  BY DEF DeleteObject, Obsolete, IsObsolete, SyncTypeOK, ObjectList
<1>2. home \in Endpoint
  BY <1>1, SyncAssumption DEF RenderedObject
<1>3. TypedAsSource(obj, u) /\ TypedAsSource(current[u], u)
  BY DEF AccuracyInv, ListsTyped
<1>4. ~IsCurrent(u)
  BY <1>1, <1>3 DEF TypedAsSource, TypesFixed, IsCurrent, IsCurrentAs
<1>5. HomesOf(u) = {home}
  BY <1>1, <1>3, OneHome
<1>6. u \notin handled /\ ~Swept(u)
  BY <1>1, <1>4 DEF AccuracyInv, PassRecords, Swept
<1>7. scim_new_cache[u] = Absent
  BY <1>6 DEF AccuracyInv, NewCacheOrigin
<1>8. Erased(home, u, out)
  BY <1>2, EraseEffect DEF DeleteObject, SyncTypeOK
<1> QED
  BY <1>1, <1>2, <1>4, <1>5, <1>6, <1>7, <1>8 DEF DeleteObject, DeleteFrame

\* process_deletes_per_endpoint.
LEMMA StrayEffect ==
    ASSUME SyncTypeOK, AccuracyInv, NEW e \in Endpoint, NEW u \in Uid, NEW out \in Outcome,
           DeleteStray(e, u, out)
    PROVE  /\ pc = "deletes" /\ run.rebuild /\ u \notin handled /\ ~IsCurrent(u)
           /\ <<e, u>> \in all_scim_objects /\ <<e, u>> \notin swept
           /\ Erased(e, u, out)
           /\ UNCHANGED <<cacheFile, pc, run, current, cached, all_scim_objects, queried,
                          pre_rendered, handled, scim_new_cache, cacheFileState, statusFile>>
           /\ swept' = swept \cup {<<e, u>>}
           /\ RecordOutcome(u, out)
<1>1. ~IsCurrent(u) /\ run.rebuild /\ <<e, u>> \in all_scim_objects /\ <<e, u>> \notin swept
  BY DEF DeleteStray, Strays
<1>2. u \notin handled
  BY <1>1 DEF AccuracyInv, PassRecords
<1>3. Erased(e, u, out)
  BY EraseEffect DEF DeleteStray, SyncTypeOK
<1> QED
  BY <1>1, <1>2, <1>3 DEF DeleteStray, DeleteFrame
-----------------------------------------------------------------------------
LEMMA PhaseInit == SyncInit => PhaseInv
<1> SUFFICES ASSUME SyncInit PROVE PhaseInv
  OBVIOUS
<1>1. AtHome
  BY DEF SyncInit, SenderInit, AtHome, Holds
<1>2. PhasesDone /\ SweptIsGone /\ SweptIsKept
  BY DEF SyncInit, PhasesDone, SweptIsGone, SweptIsKept, Swept, AfterQuery
<1> QED
  BY <1>1, <1>2 DEF PhaseInv

\* A request for u at one of its homes leaves everything at home.
LEMMA RequestAtHome ==
    ASSUME SyncTypeOK, AtHome, NEW u \in Uid, NEW home \in HomesOf(u), NEW out \in Outcome,
           RecordOutcome(u, out), UNCHANGED all_scim_objects,
           \A e \in Endpoint, v \in Uid : e # home \/ v # u => server'[e][v] = server[e][v],
           \A r \in late' : r \in late \/ (r.endpoint = home /\ r.uid = u)
    PROVE  AtHome'
<1>1. \A e \in Endpoint, v \in Uid : Holds(e, v)' => e \in HomesOf(v)
  BY DEF AtHome, Holds
<1>2. \A r \in late' : r.endpoint \in HomesOf(r.uid)
  BY DEF AtHome
<1>3. doubt' = doubt /\ touched' \subseteq touched \cup {u} /\ new_doubt' \subseteq new_doubt \cup {u}
  BY DEF RecordOutcome
<1>4. \A v \in doubt' \cup new_doubt' \cup touched' : HomesOf(v) # {}
  BY <1>3 DEF AtHome
<1> QED
  BY <1>1, <1>2, <1>4 DEF AtHome, HomesOf

\* process_changes: a create or an update.
LEMMA PhaseChange ==
    ASSUME TypesFixed, SyncTypeOK, AccuracyInv, PhaseInv, NEW u \in Uid, NEW out \in Outcome,
           CreateObject(u, out) \/ UpdateObject(u, out)
    PROVE  PhaseInv'
<1>1. /\ pc = "changes" /\ swept = {} /\ IsCurrent(u) /\ Written(current[u], u, out)
      /\ UNCHANGED <<pc, run, current, cached, all_scim_objects, queried, pre_rendered, swept>>
      /\ RecordOutcome(u, out)
  BY ChangeEffect
<1>2. EndpointOf[current[u].type] \in HomesOf(u)
  BY <1>1, OneHome DEF AccuracyInv, ListsTyped, IsCurrent
<1>3. AtHome'
  BY <1>1, <1>2, RequestAtHome DEF PhaseInv, Written
<1>4. failures => failures'
  BY <1>1 DEF RecordOutcome
<1>5. PhasesDone'
  BY <1>1, <1>4 DEF PhaseInv, PhasesDone, IsSent, IsCurrent, SentTypes, OrderedTypes,
                    BeforeQuery
<1>6. SweptIsGone' /\ SweptIsKept'
  BY <1>1 DEF SweptIsGone, SweptIsKept, Swept
<1> QED
  BY <1>3, <1>5, <1>6 DEF PhaseInv

\* process_changes: nothing sent.
LEMMA PhaseKeep ==
    ASSUME SyncTypeOK, AccuracyInv, PhaseInv, NEW u \in Uid, CopyObject(u) \/ SkipUnrendered(u)
    PROVE  PhaseInv'
<1>1. /\ pc = "changes"
      /\ UNCHANGED <<server, late, pc, run, current, cached, all_scim_objects, queried,
                     pre_rendered, swept, doubt, new_doubt, touched, failures>>
  BY DEF CopyObject, SkipUnrendered, ChangeFrame, ChangeIsNext, senderVars, history
<1>2. swept = {}
  BY <1>1 DEF AccuracyInv, QuietAtFirst
<1>3. AtHome' /\ SweptIsGone' /\ SweptIsKept'
  BY <1>1, <1>2 DEF PhaseInv, AtHome, SweptIsGone, SweptIsKept, Swept, Holds
<1>4. PhasesDone'
  BY <1>1 DEF PhaseInv, PhasesDone, IsSent, IsCurrent, SentTypes, OrderedTypes, BeforeQuery
<1> QED
  BY <1>3, <1>4 DEF PhaseInv

\* The delete passes leave alone what the pass over changes was about.
LEMMA DeletesKeepPhases ==
    ASSUME PhaseInv, pc = "deletes", NEW u \in Uid, NEW out \in Outcome, RecordOutcome(u, out),
           UNCHANGED <<pc, run, current, cached, all_scim_objects, queried, pre_rendered,
                       handled>>
    PROVE  PhasesDone'
<1>1. failures => failures'
  BY DEF RecordOutcome
<1> QED
  BY <1>1 DEF PhaseInv, PhasesDone, IsSent, IsCurrent, ToChange, SentTypes, OrderedTypes,
              Endpoints, BeforeQuery, AfterQuery

LEMMA PhaseDelete ==
    ASSUME TypesFixed, SyncTypeOK, AccuracyInv, PhaseInv, NEW u \in Uid, NEW out \in Outcome,
           DeleteObject(u, out)
    PROVE  PhaseInv'
<1> DEFINE home == EndpointOf[cached[u].type]
<1>1. /\ pc = "deletes" /\ ~run.rebuild /\ ~IsCurrent(u) /\ cached[u] # Absent
      /\ cached[u] \in RenderedObject
      /\ home \in Endpoint /\ HomesOf(u) = {home} /\ Erased(home, u, out)
      /\ UNCHANGED <<pc, run, current, cached, all_scim_objects, queried, pre_rendered, handled>>
      /\ swept' = swept \cup {<<home, u>>}
      /\ RecordOutcome(u, out)
      /\ scim_new_cache' = AddObject(scim_new_cache, u, AfterDelete(cached[u], out))
  BY DeleteEffect
<1>2. AtHome'
  BY <1>1, RequestAtHome DEF PhaseInv, Erased
<1>3. PhasesDone'
  BY <1>1, DeletesKeepPhases
<1>4. SweptIsGone'
  BY <1>1 DEF PhaseInv, SweptIsGone, Swept, IsCurrent
<1>5. SweptIsKept'
  <2> SUFFICES ASSUME NEW e \in Endpoint, NEW v \in Uid \ new_doubt', <<e, v>> \in swept',
                      Holds(e, v)'
               PROVE  scim_new_cache'[v] # Absent
    BY DEF SweptIsKept
  <2>1. \A w \in Uid : scim_new_cache'[w] =
           IF w = u /\ AfterDelete(cached[u], out) # Absent THEN AfterDelete(cached[u], out)
           ELSE scim_new_cache[w]
    <3>1. AfterDelete(cached[u], out) \in RenderedObject \cup {Absent}
      BY <1>1, AfterTypes
    <3> QED
      BY <1>1, <3>1, AddObjectTypes DEF SyncTypeOK
  <2>2. CASE v # u
    <3>1. v \notin new_doubt /\ <<e, v>> \in swept /\ Holds(e, v)
      BY <1>1, <2>2, RecordEffect DEF Erased, Holds
    <3> QED
      BY <1>1, <2>1, <2>2, <3>1 DEF PhaseInv, SweptIsKept
  <2>3. CASE v = u
    <3>1. e = home
      BY <1>1, <1>2, <2>3 DEF AtHome, HomesOf
    <3>2. out \notin {"ok", "missing"}
      BY <1>1, <2>3, <3>1 DEF Erased, Holds
    <3> QED
      BY <1>1, <2>1, <2>3, <3>2 DEF AfterDelete
  <2> QED
    BY <2>2, <2>3
<1> QED
  BY <1>2, <1>3, <1>4, <1>5 DEF PhaseInv

LEMMA PhaseDeleteStray ==
    ASSUME SyncTypeOK, AccuracyInv, PhaseInv, NEW e \in Endpoint, NEW u \in Uid,
           NEW out \in Outcome, DeleteStray(e, u, out)
    PROVE  PhaseInv'
<1>1. /\ pc = "deletes" /\ run.rebuild /\ ~IsCurrent(u) /\ <<e, u>> \in all_scim_objects
      /\ Erased(e, u, out)
      /\ UNCHANGED <<pc, run, current, cached, all_scim_objects, queried, pre_rendered, handled>>
      /\ swept' = swept \cup {<<e, u>>}
      /\ RecordOutcome(u, out)
  BY StrayEffect
<1>2. AtHome'
  <2>1. e \in HomesOf(u)
    BY <1>1 DEF PhaseInv, AtHome
  <2> QED
    BY <1>1, <2>1, RequestAtHome DEF PhaseInv, Erased
<1>3. PhasesDone'
  BY <1>1, DeletesKeepPhases
<1>4. SweptIsGone' /\ SweptIsKept'
  BY <1>1 DEF PhaseInv, SweptIsGone, SweptIsKept, Swept, IsCurrent
<1> QED
  BY <1>2, <1>3, <1>4 DEF PhaseInv

-----------------------------------------------------------------------------
\* Before anything is sent.

LEMMA PhaseStart ==
    ASSUME SyncTypeOK, AccuracyInv, PhaseInv, NEW r \in Runs, StartRun(r)
    PROVE  PhaseInv'
<1>1. /\ pc = "idle" /\ pc' = "read_cache"
      /\ UNCHANGED <<server, late, all_scim_objects, queried, swept, doubt, new_doubt, touched>>
  BY DEF StartRun, history
<1>2. swept = {}
  BY <1>1 DEF AccuracyInv, QuietAtFirst, BeforeRequests
<1>3. AtHome' /\ SweptIsGone' /\ SweptIsKept'
  BY <1>1, <1>2 DEF PhaseInv, AtHome, SweptIsGone, SweptIsKept, Swept, Holds
<1>4. PhasesDone'
  BY <1>1 DEF PhaseInv, PhasesDone, BeforeQuery, AfterQuery
<1> QED
  BY <1>3, <1>4 DEF PhaseInv

LEMMA PhaseEarly ==
    ASSUME SyncTypeOK, AccuracyInv, PhaseInv, read_cache \/ ThresholdsPass \/ ForceOptions
    PROVE  PhaseInv'
<1>1. /\ UNCHANGED <<server, late, all_scim_objects, queried, swept, run, current,
                     doubt, new_doubt, touched, failures>>
      /\ pc \in BeforeRequests
      /\ pc' \in {"thresholds", "query", "force", "begin"}
  BY DEF read_cache, ThresholdsPass, ForceOptions, BeforeRequests, senderVars, history
<1>2. swept = {}
  BY <1>1 DEF AccuracyInv, QuietAtFirst
<1>3. AtHome' /\ SweptIsGone' /\ SweptIsKept'
  BY <1>1, <1>2 DEF PhaseInv, AtHome, SweptIsGone, SweptIsKept, Swept, Holds
<1>4. pc' \in BeforeQuery => pc \in BeforeQuery
  BY DEF read_cache, ThresholdsPass, ForceOptions, BeforeQuery
<1>5. pc' \in AfterQuery /\ run.rebuild =>
         \/ pc \in AfterQuery
         \/ pc \in BeforeQuery /\ OrderedTypes = {}
  BY DEF read_cache, ThresholdsPass, ForceOptions, BeforeQuery, AfterQuery
<1>6. OrderedTypes = {} => Endpoints(OrderedTypes) = {}
  BY DEF Endpoints
<1>7. Endpoints(OrderedTypes)' = Endpoints(OrderedTypes)
  BY <1>1 DEF Endpoints, OrderedTypes
<1>8. PhasesDone'
  BY <1>1, <1>4, <1>5, <1>6, <1>7 DEF PhaseInv, PhasesDone
<1> QED
  BY <1>3, <1>8 DEF PhaseInv

LEMMA PhaseQuery ==
    ASSUME SyncTypeOK, AccuracyInv, PhaseInv, NEW e \in Endpoint, QueryEndpoint(e)
    PROVE  PhaseInv'
<1>1. /\ UNCHANGED <<server, late, swept, run, current, doubt, touched, failures>>
      /\ pc = "query" /\ pc' \in {"query", "force"}
      /\ new_doubt' \subseteq new_doubt
      /\ all_scim_objects' = all_scim_objects \cup {<<e, u>> : u \in {v \in Uid : Holds(e, v)}}
      /\ queried' = queried \cup {e}
      /\ pc' = IF queried' = Endpoints(OrderedTypes) THEN "force" ELSE "query"
  BY DEF QueryEndpoint, senderVars
<1>2. swept = {}
  BY <1>1 DEF AccuracyInv, QuietAtFirst, BeforeRequests
<1>3. AtHome'
  <2>1. \A f \in Endpoint, u \in Uid :
           <<f, u>> \in all_scim_objects' => <<f, u>> \in all_scim_objects \/ Holds(f, u)
    BY <1>1
  <2> QED
    BY <1>1, <2>1 DEF PhaseInv, AtHome, Holds, HomesOf
<1>4. SweptIsGone' /\ SweptIsKept'
  BY <1>1, <1>2 DEF SweptIsGone, SweptIsKept, Swept
<1>5. Endpoints(OrderedTypes)' = Endpoints(OrderedTypes)
  BY <1>1 DEF Endpoints, OrderedTypes
<1>6. PhasesDone'
  BY <1>1, <1>5 DEF PhasesDone, BeforeQuery, AfterQuery
<1> QED
  BY <1>3, <1>4, <1>6 DEF PhaseInv

-----------------------------------------------------------------------------
\* Rendering, and the turns from one pass to the next.

LEMMA PhaseTurns ==
    ASSUME SyncTypeOK, AccuracyInv, PhaseInv, RenderAndPreallocate \/ ChangesDone \/ DeletesDone
    PROVE  PhaseInv'
<1>1. /\ UNCHANGED <<server, late, all_scim_objects, queried, scim_new_cache, swept, run,
                     current, cached, handled, doubt, new_doubt, touched>>
      /\ pc \in {"begin", "changes", "deletes"}
      /\ pc' \in {"changes", "deletes", "finalize"}
  BY DEF RenderAndPreallocate, ChangesDone, DeletesDone, senderVars, history
<1>2. AtHome' /\ SweptIsGone' /\ SweptIsKept'
  BY <1>1 DEF PhaseInv, AtHome, SweptIsGone, SweptIsKept, Swept, Holds, IsCurrent
<1>3. /\ \A u \in Uid : IsSent(u)' <=> IsSent(u)
      /\ ToChange' = ToChange /\ Obsolete' = Obsolete /\ Strays' = Strays
      /\ Endpoints(OrderedTypes)' = Endpoints(OrderedTypes)
  BY <1>1 DEF IsSent, IsCurrent, IsCurrentAs, ToChange, Obsolete, IsObsolete, Strays, Endpoints,
              SentTypes, OrderedTypes
<1>4. pc' \in {"deletes", "finalize"} => ToChange = {}
  BY DEF RenderAndPreallocate, ChangesDone, DeletesDone, PhaseInv, PhasesDone
<1>5. pc' = "finalize" => Obsolete = {} /\ Strays = {}
  BY DEF RenderAndPreallocate, ChangesDone, DeletesDone
<1>6. ~failures' \/ "render" \notin Faults => \A u \in Uid : IsSent(u) => pre_rendered'[u] = current[u]
  BY DEF RenderAndPreallocate, ChangesDone, DeletesDone, PhaseInv, PhasesDone, Fault, history
<1>7. PhasesDone'
  BY <1>1, <1>3, <1>4, <1>5, <1>6 DEF PhaseInv, PhasesDone, BeforeQuery, AfterQuery
<1> QED
  BY <1>2, <1>7 DEF PhaseInv

-----------------------------------------------------------------------------
\* The end of a run, and the world.

LEMMA PhaseEnd ==
    ASSUME PhaseInv, EndRun, UNCHANGED <<server, late>>,
           doubt' \cup new_doubt' \subseteq doubt \cup new_doubt \cup touched
    PROVE  PhaseInv'
<1>1. AtHome'
  BY DEF EndRun, PhaseInv, AtHome, Holds, HomesOf
<1>2. PhasesDone'
  BY DEF EndRun, PhasesDone, BeforeQuery, AfterQuery
<1>3. SweptIsGone' /\ SweptIsKept'
  BY DEF EndRun, SweptIsGone, SweptIsKept, Swept
<1> QED
  BY <1>1, <1>2, <1>3 DEF PhaseInv

\* Whatever changes on the server by itself is then in doubt.
LEMMA WorldEffect ==
    ASSUME SyncTypeOK, AtHome, NEW u \in Uid, NEW home \in HomesOf(u), NEW j,
           server' = [server EXCEPT ![home] = [@ EXCEPT ![u] = j]] \/ server' = server,
           late' \subseteq late, AddDoubt(u), UNCHANGED all_scim_objects
    PROVE  /\ AtHome'
           /\ \A e \in Endpoint, v \in Uid : v # u => server'[e][v] = server[e][v]
<1>1. home \in Endpoint
  BY HomesAreEndpoints
<1>2. \A e \in Endpoint, v \in Uid : e # home \/ v # u => server'[e][v] = server[e][v]
  BY <1>1 DEF SyncTypeOK, SenderTypeOK
<1>3. \A e \in Endpoint, v \in Uid : Holds(e, v)' => e \in HomesOf(v)
  BY <1>2 DEF AtHome, Holds
<1>4. \A v \in doubt' \cup new_doubt' \cup touched' : HomesOf(v) # {}
  BY DEF AddDoubt, AtHome
<1> QED
  BY <1>2, <1>3, <1>4 DEF AtHome, HomesOf

\* A late request that arrives, or somebody else who writes.
Uncalled(u) ==
    \/ \E req \in late : req.uid = u /\ LateRequestArrives(req)
    \/ OthersChangeServer(u)

LEMMA UncalledEffect ==
    ASSUME SyncTypeOK, AtHome, NEW u \in Uid, Uncalled(u)
    PROVE  /\ AtHome'
           /\ \A e \in Endpoint, v \in Uid : v # u => server'[e][v] = server[e][v]
           /\ AddDoubt(u)
           /\ UNCHANGED <<cacheFile, cacheFileState, statusFile, runVars,
                          number_of_timeouts, aborted>>
           /\ faults' = faults \/ (faults' = faults + 1 /\ faults < MaxFaults)
<1>1. ASSUME NEW req \in late, req.uid = u, LateRequestArrives(req)
      PROVE  AtHome' /\ \A e \in Endpoint, v \in Uid : v # u => server'[e][v] = server[e][v]
  <2>1. req.endpoint \in HomesOf(u)
    BY <1>1 DEF AtHome
  <2>2. PICK j : server' = [server EXCEPT ![req.endpoint] = [@ EXCEPT ![u] = j]] \/ server' = server
    <3>1. \/ server' = [server EXCEPT ![req.endpoint] =
                           [@ EXCEPT ![u] = IF req.op = "DELETE" THEN Absent ELSE req.json]]
          \/ server' = server
      BY <1>1 DEF LateRequestArrives, LateArrival, Handled
    <3> QED
      BY <3>1
  <2>3. late' \subseteq late /\ AddDoubt(u) /\ UNCHANGED all_scim_objects
    BY <1>1 DEF LateRequestArrives, LateArrival, runVars
  <2> QED
    BY <2>1, <2>2, <2>3, WorldEffect
<1>2. ASSUME OthersChangeServer(u)
      PROVE  AtHome' /\ \A e \in Endpoint, v \in Uid : v # u => server'[e][v] = server[e][v]
  <2>1. PICK e \in HomesOf(u) : ServerChangedByOthers(e, u)
    BY <1>2 DEF OthersChangeServer
  <2>2. PICK j : server' = [server EXCEPT ![e] = [@ EXCEPT ![u] = j]]
    BY <2>1 DEF ServerChangedByOthers
  <2>3. late' \subseteq late /\ AddDoubt(u) /\ UNCHANGED all_scim_objects
    BY <1>2, <2>1 DEF OthersChangeServer, ServerChangedByOthers, runVars
  <2> QED
    BY <2>2, <2>3, WorldEffect
<1>3. AddDoubt(u) /\ UNCHANGED <<cacheFile, cacheFileState, statusFile, runVars>>
  BY DEF Uncalled, LateRequestArrives, OthersChangeServer
<1>4. /\ faults' = faults \/ (faults' = faults + 1 /\ faults < MaxFaults)
      /\ UNCHANGED <<number_of_timeouts, aborted>>
  BY DEF Uncalled, LateRequestArrives, LateArrival, OthersChangeServer, ServerChangedByOthers,
         Fault
<1> QED
  BY <1>1, <1>2, <1>3, <1>4 DEF Uncalled

LEMMA PhaseUncalled ==
    ASSUME SyncTypeOK, AccuracyInv, PhaseInv, NEW u \in Uid, Uncalled(u)
    PROVE  PhaseInv'
<1>1. /\ AtHome'
      /\ \A e \in Endpoint, v \in Uid : v # u => server'[e][v] = server[e][v]
      /\ AddDoubt(u) /\ UNCHANGED runVars
  BY UncalledEffect DEF PhaseInv
<1>2. failures' = (failures \/ pc # "idle")
  BY <1>1 DEF AddDoubt
<1>3. PhasesDone'
  <2>1. ~failures' => ~failures
    BY <1>2
  <2> QED
    BY <1>1, <2>1 DEF runVars, PhaseInv, PhasesDone, IsSent, IsCurrent, IsCurrentAs, ToChange,
          Obsolete, IsObsolete, Strays, Endpoints, SentTypes, OrderedTypes
<1>4. SweptIsGone'
  BY <1>1 DEF runVars, PhaseInv, SweptIsGone, Swept, IsCurrent
<1>5. SweptIsKept'
  BY <1>1 DEF runVars, PhaseInv, SweptIsKept, AddDoubt, Holds
<1> QED
  BY <1>1, <1>3, <1>4, <1>5 DEF PhaseInv

LEMMA PhaseHarmed ==
    ASSUME SyncTypeOK, AccuracyInv, PhaseInv, NEW kind \in {"lost"} \cup Damage,
           CacheFileHarmed(kind)
    PROVE  PhaseInv'
<1>1. /\ pc = "idle" /\ UNCHANGED <<server, late, runVars, touched, failures>>
      /\ doubt' = doubt \cup {u \in Uid : cacheFile[u] # Absent} /\ new_doubt' = doubt'
  BY DEF CacheFileHarmed
<1>2. \A u \in Uid : cacheFile[u] # Absent => HomesOf(u) # {}
  BY DEF AccuracyInv, ListsTyped, TypedAsSource, HomesOf
<1>3. swept = {}
  BY <1>1 DEF AccuracyInv, QuietAtFirst, BeforeRequests
<1>4. AtHome'
  BY <1>1, <1>2 DEF runVars, PhaseInv, AtHome, Holds, HomesOf
<1>5. PhasesDone'
  BY <1>1 DEF runVars, PhaseInv, PhasesDone, AfterQuery
<1>6. SweptIsGone' /\ SweptIsKept'
  BY <1>1, <1>3 DEF runVars, SweptIsGone, SweptIsKept, Swept
<1> QED
  BY <1>4, <1>5, <1>6 DEF PhaseInv

-----------------------------------------------------------------------------
\* The steps that end a run without a new cache file.
LEMMA UnsavedEnds ==
    ASSUME SyncTypeOK,
           ThresholdsStop \/ CacheTruncated \/ (RunFails /\ ~LoadFails)
    PROVE  /\ EndRunUnsaved /\ UNCHANGED <<server, late, number_of_timeouts, aborted>>
           /\ faults' = faults \/ (faults' = faults + 1 /\ faults < MaxFaults)
           /\ pc # "idle"
BY DEF ThresholdsStop, CacheTruncated, RunFails, CacheUnreadable, QueryFails, PreallocationFails,
       FinalizeFails, SettingMissing, Crash, Fault, senderVars, ChangeIsNext

\* Steps that touch none of what the invariants speak of.
LEMMA IdleSteps ==
    ASSUME SyncTypeOK,
           SourceChanges \/ LoadFails \/ (\E req \in late : LateRequestIsLost(req)) \/ UNCHANGED vars
    PROVE  /\ UNCHANGED <<server, number_of_timeouts, aborted, cacheFile, cacheFileState, runVars,
                          history>>
           /\ late' \subseteq late
           /\ faults' = faults \/ (faults' = faults + 1 /\ faults < MaxFaults)
BY DEF SourceChanges, LoadFails, LateRequestIsLost, LateLost, vars, senderVars, Fault

LEMMA PhaseNext ==
    ASSUME TypesFixed, SyncTypeOK, AccuracyInv, PhaseInv, [SyncNext]_vars
    PROVE  PhaseInv'
<1>1. CASE SourceChanges \/ LoadFails \/ (\E req \in late : LateRequestIsLost(req))
              \/ UNCHANGED vars
  <2>1. UNCHANGED <<server, runVars, history>> /\ late' \subseteq late
    BY <1>1, IdleSteps
  <2> QED
    BY <2>1 DEF runVars, history, PhaseInv, AtHome, PhasesDone, SweptIsGone, SweptIsKept, Swept,
          Holds, IsSent, IsCurrent, IsCurrentAs, ToChange, Obsolete, IsObsolete, Strays,
          SentTypes, OrderedTypes, Endpoints, HomesOf
<1>2. CASE ThresholdsStop \/ CacheTruncated \/ (RunFails /\ ~LoadFails)
  BY <1>2, UnsavedEnds, PhaseEnd DEF EndRunUnsaved
<1>3. CASE FinalizeCacheFile
  BY <1>3, PhaseEnd DEF FinalizeCacheFile, senderVars
<1>4. CASE RunStep
  BY <1>2, <1>3, <1>4, PhaseEarly, PhaseQuery, PhaseTurns, PhaseKeep, PhaseChange, PhaseDelete,
     PhaseDeleteStray DEF RunStep
<1>5. CASE WorldStep
  <2>1. ASSUME NEW req \in late, LateRequestArrives(req)
        PROVE  PhaseInv'
    BY <2>1, PhaseUncalled DEF Uncalled, SyncTypeOK, SenderTypeOK, Request
  <2>2. ASSUME NEW u \in Uid, OthersChangeServer(u)
        PROVE  PhaseInv'
    BY <2>2, PhaseUncalled DEF Uncalled
  <2> QED
    BY <1>1, <1>5, <2>1, <2>2, PhaseHarmed DEF WorldStep
<1> QED
  BY <1>1, <1>2, <1>4, <1>5, PhaseStart DEF SyncNext, RunFails

\* Each phase of a run leaves to the next what that one relies on, and nothing
\* is ever anywhere on the server but where its type lives (ScimActions::perform).
THEOREM PhaseInvariant ==
    ASSUME TypesFixed
    PROVE  SyncSpec => []PhaseInv
<1>1. SyncInit => SyncTypeOK /\ AccuracyInv /\ PhaseInv
  BY TypeInit, AccuracyInit, PhaseInit
<1>2. SyncTypeOK /\ AccuracyInv /\ PhaseInv /\ [SyncNext]_vars
         => SyncTypeOK' /\ AccuracyInv' /\ PhaseInv'
  BY TypeNext, AccuracyNext, PhaseNext
<1> QED
  BY <1>1, <1>2, PTL DEF SyncSpec

-----------------------------------------------------------------------------
\* What completeness rests on.

LEMMA OnlyHome ==
    ASSUME TypesFixed, NEW u \in Uid, NEW e \in HomesOf(u), NEW f \in HomesOf(u)
    PROVE  e = f
BY DEF TypesFixed, HomesOf

\* Once an id is not at its home, it is nowhere.
LEMMA GoneFromHome ==
    ASSUME TypesFixed, AtHome, NEW u \in Uid, NEW e \in HomesOf(u), ~Holds(e, u)
    PROVE  ~OnServer(u)
BY OnlyHome DEF AtHome, OnServer

\* A dummy object is an object of the same type.
LEMMA DummyIsObject ==
    ASSUME NEW obj \in RenderedObject
    PROVE  DummyObject(obj) # Absent /\ DummyObject(obj).type = obj.type
BY RenderedAssumption DEF DummyObject, RenderedObject

\* What a request leaves for all ids but its own.
LEMMA OthersAsBefore ==
    ASSUME SyncTypeOK, NEW u \in Uid, NEW out \in Outcome, RecordOutcome(u, out),
           \A e \in Endpoint, v \in Uid : v # u => server'[e][v] = server[e][v],
           NEW v \in Uid, v # u
    PROVE  /\ v \in new_doubt' <=> v \in new_doubt
           /\ v \in touched' <=> v \in touched
           /\ OnServer(v)' <=> OnServer(v)
           /\ \A e \in Endpoint : Holds(e, v)' <=> Holds(e, v)
           /\ \A e \in Endpoint : server'[e][v] = server[e][v]
BY RecordEffect DEF OnServer, Holds

\* A run is clean only as long as every answer is success.
LEMMA CleanAnswer ==
    ASSUME SyncTypeOK, NEW u \in Uid, NEW out \in Outcome, RecordOutcome(u, out), ~failures'
    PROVE  /\ out = "ok" /\ ~failures
           /\ u \notin new_doubt'
           /\ \A v \in new_doubt' : v \in new_doubt /\ v # u
<1>1. failures' = (failures \/ out # "ok")
  BY DEF RecordOutcome
<1>2. out = "ok" /\ ~failures
  BY <1>1
<1>3. new_doubt' = new_doubt \ {u}
  <2>1. Definite(out)
    BY <1>2 DEF Definite
  <2>2. new_doubt' = CASE Definite(out) -> new_doubt \ {u}
                      [] Unknown(out)  -> new_doubt \cup {u}
                      [] OTHER         -> new_doubt
    BY DEF RecordOutcome
  <2> QED
    BY <1>2, <2>1, <2>2 DEF Definite, Unknown
<1> QED
  BY <1>2, <1>3

-----------------------------------------------------------------------------
\* What has gone well so far.

LEMMA CleanInit == SyncInit => CleanInv
BY DEF SyncInit, CleanInv, CleanSoFar, RebuildAsks, Swept, AfterQuery

\* While nothing is dealt with, there is little to say.
LEMMA CleanAtFirst ==
    ASSUME handled' = {}, swept' = {}, pc' \notin {"query"} \cup AfterQuery
    PROVE  CleanInv'
BY DEF CleanInv, CleanSoFar, RebuildAsks, Swept, AfterQuery

LEMMA CleanEarly ==
    ASSUME TypesFixed, SyncTypeOK, AccuracyInv, PhaseInv, CleanInv,
           read_cache \/ ThresholdsPass \/ ForceOptions \/ \E e \in Endpoint : QueryEndpoint(e)
    PROVE  CleanInv'
<1>1. /\ UNCHANGED <<handled, swept, run, failures>>
      /\ pc \in BeforeRequests
  BY DEF read_cache, ThresholdsPass, ForceOptions, QueryEndpoint, BeforeRequests, history
<1>2. handled = {} /\ swept = {}
  BY <1>1 DEF AccuracyInv, QuietAtFirst
<1>3. CleanSoFar'
  BY <1>1, <1>2 DEF CleanSoFar, Swept
<1>4. RebuildAsks'
  <2>1. CASE read_cache
    BY <2>1 DEF read_cache, RebuildAsks, AfterQuery
  <2>2. CASE ThresholdsPass
    <3>1. queried' = {}
      BY <2>2 DEF ThresholdsPass, PhaseInv, PhasesDone, BeforeQuery
    <3> QED
      BY <1>1, <1>2, <3>1 DEF RebuildAsks, Dealt, Swept
  <2>3. CASE ForceOptions
    BY <1>2, <2>3 DEF ForceOptions, CleanInv, RebuildAsks, Dealt, Swept, AfterQuery, history, HomesOf
  <2>4. ASSUME NEW e \in Endpoint, QueryEndpoint(e)
        PROVE  RebuildAsks'
    <3> SUFFICES ASSUME run.rebuild, ~failures, NEW u \in new_doubt',
                        NEW f \in HomesOf(u), f \in queried'
                 PROVE  <<f, u>> \in all_scim_objects'
      BY <1>1, <1>2 DEF RebuildAsks, Dealt, Swept, HomesOf
    <3>1. /\ u \in new_doubt /\ u \in Uid /\ pc = "query"
          /\ queried' = queried \cup {e}
          /\ all_scim_objects' = all_scim_objects \cup {<<e, v>> : v \in {w \in Uid : Holds(e, w)}}
          /\ Holds(e, u) \/ ~(HomesOf(u) \subseteq {e})
      BY <2>4 DEF QueryEndpoint, SyncTypeOK
    <3>2. CASE f = e
      BY <3>1, <3>2, OnlyHome
    <3>3. CASE f \in queried
      BY <3>1, <3>3 DEF CleanInv, RebuildAsks
    <3> QED
      BY <3>1, <3>2, <3>3
  <2> QED
    BY <2>1, <2>2, <2>3, <2>4
<1> QED
  BY <1>3, <1>4 DEF CleanInv

LEMMA CleanTurns ==
    ASSUME CleanInv, RenderAndPreallocate \/ ChangesDone \/ DeletesDone
    PROVE  CleanInv'
<1>1. /\ UNCHANGED <<server, current, handled, swept, run, new_doubt, queried, all_scim_objects>>
      /\ pc \in AfterQuery
      /\ ~failures' => ~failures
  BY DEF RenderAndPreallocate, ChangesDone, DeletesDone, AfterQuery, senderVars, history
<1> QED
  BY <1>1 DEF CleanInv, CleanSoFar, RebuildAsks, Swept, OnServer, Holds, Dealt, HomesOf

LEMMA CleanKeep ==
    ASSUME SyncTypeOK, AccuracyInv, PhaseInv, CleanInv, NEW u \in Uid,
           CopyObject(u) \/ SkipUnrendered(u)
    PROVE  CleanInv'
<1>1. /\ UNCHANGED <<server, current, swept, pc, run, cached, new_doubt, queried,
                     all_scim_objects, failures>>
      /\ pc = "changes" /\ IsSent(u) /\ u \notin handled /\ handled' = handled \cup {u}
  BY DEF CopyObject, SkipUnrendered, ChangeFrame, ChangeIsNext, ToChange, senderVars, history
<1>2. swept = {}
  BY <1>1 DEF AccuracyInv, QuietAtFirst
<1>3. ASSUME ~failures
      PROVE  /\ CopyObject(u) /\ ~run.rebuild
             /\ u \notin new_doubt => server[EndpointOf[current[u].type]][u] = current[u].json
  <2>1. pre_rendered[u] = current[u] /\ Rendered(u) /\ current[u] \in SourceObject
    BY <1>1, <1>3 DEF PhaseInv, PhasesDone, IsSent, IsCurrent, Rendered, SyncTypeOK
  <2>2. CopyObject(u) /\ ~run.rebuild /\ cached[u] = current[u]
    BY <2>1 DEF CopyObject, SkipUnrendered, IsCopy
  <2>3. Real(cached[u])
    BY <2>1, <2>2, RenderedAssumption, SourceObjectIsRendered DEF Real
  <2> QED
    BY <1>1, <1>2, <2>2, <2>3 DEF AccuracyInv, CachedIsAccurate, Accurate, Swept
<1>4. CleanSoFar'
  BY <1>1, <1>2, <1>3 DEF CleanInv, CleanSoFar, Swept
<1>5. RebuildAsks'
  BY <1>1, <1>3 DEF RebuildAsks
<1> QED
  BY <1>4, <1>5 DEF CleanInv

LEMMA CleanChange ==
    ASSUME SyncTypeOK, AccuracyInv, CleanInv, NEW u \in Uid, NEW out \in Outcome,
           CreateObject(u, out) \/ UpdateObject(u, out)
    PROVE  CleanInv'
<1>1. /\ pc = "changes" /\ swept = {} /\ Written(current[u], u, out)
      /\ UNCHANGED <<current, swept, pc, run, queried, all_scim_objects>>
      /\ handled' = handled \cup {u} /\ RecordOutcome(u, out)
  BY ChangeEffect
<1> SUFFICES ASSUME ~failures' PROVE CleanInv'
  BY DEF CleanInv, CleanSoFar, RebuildAsks
<1>2. out = "ok" /\ ~failures /\ u \notin new_doubt'
  BY <1>1, CleanAnswer
<1>3. CleanSoFar'
  <2> SUFFICES ASSUME NEW v \in Uid \ new_doubt', v \in handled'
               PROVE  server'[EndpointOf[current[v].type]][v] = current[v].json
    BY <1>1 DEF CleanSoFar, Swept
  <2>1. CASE v = u
    BY <1>1, <1>2, <2>1 DEF Written
  <2>2. CASE v # u
    <3>1. v \in handled /\ v \notin new_doubt
      BY <1>1, <2>2, RecordEffect
    <3>2. current[v] \in SourceObject
      BY <3>1 DEF AccuracyInv, PassRecords, IsCurrent, SyncTypeOK
    <3>3. EndpointOf[current[v].type] \in Endpoint
      BY <3>2, SyncAssumption
    <3> QED
      BY <1>1, <1>2, <2>2, <3>1, <3>3 DEF CleanInv, CleanSoFar, Written
  <2> QED
    BY <2>1, <2>2
<1>4. RebuildAsks'
  <2>1. \A v \in new_doubt' : v \in new_doubt /\ v # u
    BY <1>1, CleanAnswer
  <2> QED
    BY <1>1, <1>2, <2>1 DEF CleanInv, RebuildAsks, Dealt, Swept, AfterQuery, HomesOf
<1> QED
  BY <1>3, <1>4 DEF CleanInv

\* A delete that went well.
LEMMA CleanErased ==
    ASSUME TypesFixed, SyncTypeOK, AccuracyInv, AtHome', CleanInv, NEW e \in Endpoint,
           NEW u \in Uid, NEW out \in Outcome,
           pc = "deletes", Erased(e, u, out), e \in HomesOf(u), u \notin handled,
           RecordOutcome(u, out), swept' = swept \cup {<<e, u>>},
           UNCHANGED <<current, handled, pc, run, queried, all_scim_objects>>
    PROVE  CleanInv'
<1> SUFFICES ASSUME ~failures' PROVE CleanInv'
  BY DEF CleanInv, CleanSoFar, RebuildAsks
<1>1. out = "ok" /\ ~failures /\ u \notin new_doubt'
  BY CleanAnswer
<1>2. \A v \in Uid : v # u => /\ v \in new_doubt' <=> v \in new_doubt
                              /\ \A f \in Endpoint : server'[f][v] = server[f][v]
                              /\ OnServer(v)' <=> OnServer(v)
                              /\ Swept(v)' <=> Swept(v)
  BY OthersAsBefore DEF Erased, Swept
<1>3. ~OnServer(u)'
  <2>1. ~Holds(e, u)'
    BY <1>1 DEF Erased, Holds
  <2>2. \A f \in Endpoint : Holds(f, u)' => f \in HomesOf(u)
    BY DEF AtHome, HomesOf
  <2> QED
    BY <2>1, <2>2, OnlyHome DEF OnServer
<1>4. \A v \in handled : EndpointOf[current[v].type] \in Endpoint
  BY SyncAssumption DEF AccuracyInv, PassRecords, IsCurrent, SyncTypeOK
<1>5. CleanSoFar'
  BY <1>1, <1>2, <1>3, <1>4 DEF CleanInv, CleanSoFar
<1>6. RebuildAsks'
  <2>1. \A v \in new_doubt' : v \in new_doubt /\ v # u
    BY CleanAnswer
  <2>2. \A v \in new_doubt' : Dealt(v)' <=> Dealt(v)
    BY <2>1, <1>2 DEF Dealt, SyncTypeOK
  <2> QED
    BY <1>1, <2>1, <2>2 DEF CleanInv, RebuildAsks, AfterQuery, HomesOf
<1> QED
  BY <1>5, <1>6 DEF CleanInv

LEMMA CleanUncalled ==
    ASSUME SyncTypeOK, AccuracyInv, PhaseInv, CleanInv, NEW u \in Uid, Uncalled(u)
    PROVE  CleanInv'
<1>1. AddDoubt(u) /\ UNCHANGED runVars
  BY UncalledEffect DEF PhaseInv
<1>2. failures' = (failures \/ pc # "idle")
  BY <1>1 DEF AddDoubt
<1>3. CASE pc # "idle"
  BY <1>2, <1>3 DEF CleanInv, CleanSoFar, RebuildAsks
<1>4. CASE pc = "idle"
  <2>1. handled = {} /\ swept = {}
    BY <1>4 DEF AccuracyInv, QuietAtFirst, BeforeRequests
  <2> QED
    BY <1>1, <1>4, <2>1, CleanAtFirst DEF runVars, AfterQuery
<1> QED
  BY <1>3, <1>4

LEMMA CleanDeletes ==
    ASSUME TypesFixed, SyncTypeOK, AccuracyInv, PhaseInv, AtHome', CleanInv, NEW u \in Uid,
           NEW out \in Outcome,
           DeleteObject(u, out) \/ \E e \in Endpoint : DeleteStray(e, u, out)
    PROVE  CleanInv'
<1>1. CASE DeleteObject(u, out)
  <2> DEFINE home == EndpointOf[cached[u].type]
  <2>1. /\ pc = "deletes" /\ u \notin handled /\ home \in Endpoint /\ HomesOf(u) = {home}
        /\ Erased(home, u, out) /\ swept' = swept \cup {<<home, u>>} /\ RecordOutcome(u, out)
        /\ UNCHANGED <<current, handled, pc, run, queried, all_scim_objects>>
    BY <1>1, DeleteEffect
  <2> QED
    BY <2>1, CleanErased
<1>2. ASSUME NEW e \in Endpoint, DeleteStray(e, u, out)
      PROVE  CleanInv'
  <2>1. /\ pc = "deletes" /\ u \notin handled /\ <<e, u>> \in all_scim_objects
        /\ Erased(e, u, out) /\ swept' = swept \cup {<<e, u>>} /\ RecordOutcome(u, out)
        /\ UNCHANGED <<current, handled, pc, run, queried, all_scim_objects>>
    BY <1>2, StrayEffect
  <2>2. e \in HomesOf(u)
    BY <2>1 DEF PhaseInv, AtHome
  <2> QED
    BY <2>1, <2>2, CleanErased
<1> QED
  BY <1>1, <1>2

LEMMA CleanNext ==
    ASSUME TypesFixed, SyncTypeOK, AccuracyInv, PhaseInv, CleanInv, [SyncNext]_vars
    PROVE  CleanInv'
<1> AtHome'
  BY PhaseNext DEF PhaseInv
<1>1. CASE SourceChanges \/ LoadFails \/ (\E req \in late : LateRequestIsLost(req))
              \/ UNCHANGED vars
  <2>1. UNCHANGED <<server, runVars, history>>
    BY <1>1, IdleSteps
  <2> QED
    BY <2>1 DEF runVars, history, CleanInv, CleanSoFar, RebuildAsks, Swept, OnServer, Holds,
          Dealt, HomesOf
<1>2. CASE EndRun
  BY <1>2, CleanAtFirst DEF EndRun, AfterQuery
<1>3. CASE ThresholdsStop \/ CacheTruncated \/ (RunFails /\ ~LoadFails)
  BY <1>2, <1>3, UnsavedEnds DEF EndRunUnsaved
<1>4. CASE RunStep
  BY <1>2, <1>3, <1>4, CleanEarly, CleanTurns, CleanKeep, CleanChange, CleanDeletes
     DEF RunStep, FinalizeCacheFile
<1>5. ASSUME NEW r \in Runs, StartRun(r)
      PROVE  CleanInv'
  <2>1. handled' = {} /\ swept' = {} /\ pc' = "read_cache"
    BY <1>5 DEF StartRun, AccuracyInv, QuietAtFirst, BeforeRequests
  <2> QED
    BY <2>1, CleanAtFirst DEF AfterQuery
<1>6. ASSUME NEW kind \in {"lost"} \cup Damage, CacheFileHarmed(kind)
      PROVE  CleanInv'
  <2>1. handled' = {} /\ swept' = {} /\ pc' = "idle"
    BY <1>6 DEF CacheFileHarmed, runVars, AccuracyInv, QuietAtFirst, BeforeRequests
  <2> QED
    BY <2>1, CleanAtFirst DEF AfterQuery
<1>7. CASE WorldStep
  <2>1. ASSUME NEW req \in late, LateRequestArrives(req)
        PROVE  CleanInv'
    BY <2>1, CleanUncalled DEF Uncalled, SyncTypeOK, SenderTypeOK, Request
  <2>2. ASSUME NEW u \in Uid, OthersChangeServer(u)
        PROVE  CleanInv'
    BY <2>2, CleanUncalled DEF Uncalled
  <2> QED
    BY <1>1, <1>6, <1>7, <2>1, <2>2 DEF WorldStep
<1> QED
  BY <1>1, <1>3, <1>4, <1>5, <1>7 DEF SyncNext, RunFails

-----------------------------------------------------------------------------
\* Nothing on the server is forgotten.

\* Where command lines repair, the sender never gives up and is never refused.
LEMMA PatientSend ==
    ASSUME SyncTypeOK, SenderIsPatient, RepairsUndisturbed, NEW req \in Request,
           NEW out \in Outcome, Send(req, out)
    PROVE  /\ SenderIsPatient'
           /\ (\E r \in Runs : Repairs(r)) => out \notin {"error", "refused", "aborted"}
<1> USE SenderAssumption
<1>1. (\E r \in Runs : Repairs(r)) => out \notin {"error", "refused", "aborted"}
  BY SendAnswer DEF SyncTypeOK, SenderIsPatient, RepairsUndisturbed
<1>2. number_of_timeouts' <= faults' /\ faults' <= MaxFaults
  BY DEF SyncTypeOK, SenderTypeOK, SenderIsPatient, Send, CurlFails, Fault, register_timeout,
         senderVars
<1>3. ASSUME \E r \in Runs : Repairs(r)
      PROVE  ~aborted'
  <2>1. ~aborted /\ out # "refused"
    BY <1>1, <1>3 DEF SenderIsPatient
  <2>2. CASE out = "timeout"
    <3>1. /\ "timeout" \in Faults /\ faults < MaxFaults
          /\ aborted' = (aborted \/ number_of_timeouts + 1 > http_max_acceptable_timeouts)
      BY <2>1, <2>2 DEF Send, CurlFails, Fault, register_timeout, Respond
    <3>2. ~(number_of_timeouts + 1 > http_max_acceptable_timeouts)
      BY <1>3, <3>1 DEF RepairsUndisturbed, SenderIsPatient, SyncTypeOK, SenderTypeOK
    <3> QED
      BY <2>1, <3>1, <3>2
  <2>3. CASE out # "timeout"
    <3>1. aborted' = aborted
      BY <2>1, <2>3 DEF Send, CurlFails, senderVars
    <3> QED
      BY <2>1, <3>1
  <2> QED
    BY <2>2, <2>3
<1> QED
  BY <1>1, <1>2, <1>3 DEF SenderIsPatient

LEMMA PatientRequest ==
    ASSUME SyncTypeOK, AccuracyInv, SenderIsPatient, RepairsUndisturbed, NEW u \in Uid,
           NEW out \in Outcome,
           \/ CreateObject(u, out) \/ UpdateObject(u, out) \/ DeleteObject(u, out)
           \/ \E e \in Endpoint : DeleteStray(e, u, out)
    PROVE  /\ SenderIsPatient'
           /\ Repairs(run) => out \notin {"error", "refused", "aborted"}
<1>1. \E req \in Request : Send(req, out)
  <2>1. CASE CreateObject(u, out) \/ UpdateObject(u, out)
    <3>1. /\ pre_rendered[u].json \in Json
          /\ EndpointOf[pre_rendered[u].type] \in Endpoint
      BY <2>1, ChangeEffect
    <3> QED
      BY <2>1, <3>1, RequestTypes DEF CreateObject, UpdateObject
  <2>2. CASE DeleteObject(u, out)
    <3>1. cached[u] \in RenderedObject
      BY <2>2 DEF DeleteObject, Obsolete, IsObsolete, SyncTypeOK, ObjectList
    <3>2. EndpointOf[cached[u].type] \in Endpoint
      BY <3>1, SyncAssumption DEF RenderedObject
    <3> QED
      BY <2>2, <3>2 DEF DeleteObject, Request
  <2>3. ASSUME NEW e \in Endpoint, DeleteStray(e, u, out)
        PROVE  \E req \in Request : Send(req, out)
    BY <2>3 DEF DeleteStray, Request
  <2> QED
    BY <2>1, <2>2, <2>3
<1>2. run \in Runs
  BY DEF SyncTypeOK
<1> QED
  BY <1>1, <1>2, PatientSend

\* A request for u leaves the cache file as complete as it was.
LEMMA RequestLeavesFile ==
    ASSUME SyncTypeOK, CacheIsComplete, NEW u \in Uid, NEW out \in Outcome,
           RecordOutcome(u, out), out # "ok" => server' = server, UNCHANGED cacheFile,
           \A e \in Endpoint, v \in Uid : v # u => server'[e][v] = server[e][v]
    PROVE  CacheIsComplete'
<1>1. \A v \in Uid \ (doubt' \cup touched') : v \notin doubt \cup touched
  BY RecordEffect
<1>2. \A v \in Uid \ (doubt' \cup touched'), e \in Endpoint : Holds(e, v)' <=> Holds(e, v)
  BY RecordEffect DEF Holds
<1> QED
  BY <1>1, <1>2 DEF CacheIsComplete

\* What the lists say of ids other than the one a request is for.
LEMMA RequestLeavesLists ==
    ASSUME SyncTypeOK, CompletenessInv, NEW u \in Uid, NEW out \in Outcome,
           RecordOutcome(u, out), Dealt(u)', pc \in {"changes", "deletes"},
           \A v \in Uid : v # u => Dealt(v)' = Dealt(v),
           UNCHANGED <<pc, run, current, cached, all_scim_objects, queried>>,
           \A v \in Uid : v # u => scim_new_cache'[v] = scim_new_cache[v],
           \A e \in Endpoint, v \in Uid : v # u => server'[e][v] = server[e][v],
           u \notin new_doubt' /\ OnServer(u)' => scim_new_cache'[u] # Absent
    PROVE  QueryKnows' /\ CachedIsComplete' /\ NewCacheIsComplete'
<1>1. \A v \in Uid : v # u => /\ v \in new_doubt' <=> v \in new_doubt
                              /\ OnServer(v)' <=> OnServer(v)
                              /\ \A e \in Endpoint : Holds(e, v)' <=> Holds(e, v)
  BY OthersAsBefore
<1>2. QueryKnows'
  BY <1>1 DEF CompletenessInv, QueryKnows, SyncTypeOK, AfterQuery
<1>3. CachedIsComplete'
  BY <1>1 DEF CompletenessInv, CachedIsComplete, IsCurrent
<1>4. NewCacheIsComplete'
  BY <1>1 DEF CompletenessInv, NewCacheIsComplete
<1> QED
  BY <1>2, <1>3, <1>4

\* The new cache after one object is added.
LEMMA AddedToNew ==
    ASSUME SyncTypeOK, NEW u \in Uid, NEW obj \in RenderedObject \cup {Absent},
           scim_new_cache' = AddObject(scim_new_cache, u, obj)
    PROVE  /\ \A v \in Uid : v # u => scim_new_cache'[v] = scim_new_cache[v]
           /\ obj # Absent => scim_new_cache'[u] # Absent
BY AddObjectTypes DEF SyncTypeOK

\* What must go on the server is known to be there, or is told to be created.
LEMMA KnownBefore ==
    ASSUME AccuracyInv, CompletenessInv, pc = "changes", NEW u \in Uid \ new_doubt,
           u \notin handled, OnServer(u), ~run.rebuild, cached[u] = Absent
    PROVE  Repairs(run)
BY DEF AccuracyInv, QuietAtFirst, CompletenessInv, CachedIsComplete, Dealt, Swept, Repairs

LEMMA CompleteChange ==
    ASSUME TypesFixed, RepairsUndisturbed, SyncTypeOK, AccuracyInv, PhaseInv, CompletenessInv,
           NEW u \in Uid, NEW out \in Outcome, CreateObject(u, out) \/ UpdateObject(u, out)
    PROVE  CompletenessInv'
<1> DEFINE obj == current[u]
           home == EndpointOf[obj.type]
<1>1. /\ pc = "changes" /\ u \notin handled /\ Written(obj, u, out) /\ RecordOutcome(u, out)
      /\ pre_rendered[u] = obj /\ obj \in SourceObject /\ obj # Absent
      /\ CreateObject(u, out) => out # "missing"
      /\ UNCHANGED <<cacheFile, pc, run, current, cached, all_scim_objects, queried, swept>>
      /\ handled' = handled \cup {u}
  BY ChangeEffect
<1>2. /\ SenderIsPatient'
      /\ Repairs(run) => out \notin {"error", "refused", "aborted"}
  BY PatientRequest DEF CompletenessInv
<1>3. CacheIsComplete'
  BY <1>1, RequestLeavesFile DEF CompletenessInv, Written
<1>4. obj \in RenderedObject
  BY <1>1, SourceObjectIsRendered
<1>5. PICK after \in RenderedObject \cup {Absent} :
         /\ scim_new_cache' = AddObject(scim_new_cache, u, after)
         /\ CreateObject(u, out) => after = AfterCreate(obj, out)
         /\ UpdateObject(u, out) => after = AfterUpdate(obj, out)
  <2>1. ~(CreateObject(u, out) /\ UpdateObject(u, out))
    BY DEF CreateObject, UpdateObject, IsUpdate
  <2> QED
    BY <1>1, <1>4, <2>1, AfterTypes DEF CreateObject, UpdateObject
<1>6. ASSUME u \notin new_doubt', OnServer(u)'
      PROVE  scim_new_cache'[u] # Absent
  <2> SUFFICES after # Absent
    BY <1>5, AddedToNew
  <2>1. out \notin {"timeout", "broken"} /\ (Definite(out) \/ u \notin new_doubt)
    BY <1>1, <1>6, RecordEffect DEF RecordOutcome, Definite, Unknown
  <2>2. obj # Absent /\ DummyObject(obj) # Absent
    BY <1>1, <1>4, DummyIsObject
  <2>3. CASE CreateObject(u, out)
    <3>1. CASE out \in {"ok", "conflict"}
      BY <1>5, <2>2, <2>3, <3>1 DEF AfterCreate
    <3>2. CASE out \notin {"ok", "conflict"}
      <4>1. u \notin new_doubt /\ OnServer(u)
        BY <1>1, <1>6, <2>1, <2>3, <3>2 DEF Definite, Written, OnServer, Holds
      <4>2. run.rebuild \/ cached[u] = Absent
        BY <2>3 DEF CreateObject, IsCreate
      <4>3. Repairs(run)
        BY <1>1, <4>1, <4>2, KnownBefore DEF Repairs
      <4> QED
        BY <1>1, <1>2, <2>1, <2>3, <3>2, <4>3 DEF Outcome
    <3> QED
      BY <3>1, <3>2
  <2>4. CASE UpdateObject(u, out)
    <3>1. HomesOf(u) = {home}
      BY <1>1, OneHome DEF AccuracyInv, ListsTyped
    <3>2. out # "missing"
      <4>1. OnServer(u) => Holds(home, u)
        BY <3>1, GoneFromHome DEF PhaseInv
      <4> QED
        BY <1>1, <1>6, <4>1 DEF Written, OnServer, Holds
    <3> QED
      BY <1>5, <2>2, <2>4, <3>2 DEF AfterUpdate
  <2> QED
    BY <2>3, <2>4
<1>7. QueryKnows' /\ CachedIsComplete' /\ NewCacheIsComplete'
  <2>1. Dealt(u)' /\ \A v \in Uid : v # u => Dealt(v)' = Dealt(v)
    BY <1>1 DEF Dealt, Swept
  <2>2. \A v \in Uid : v # u => scim_new_cache'[v] = scim_new_cache[v]
    BY <1>5, AddedToNew
  <2>3. \A e \in Endpoint, v \in Uid : v # u => server'[e][v] = server[e][v]
    BY <1>1 DEF Written
  <2> QED
    BY <1>1, <1>6, <2>1, <2>2, <2>3, RequestLeavesLists
<1> QED
  BY <1>2, <1>3, <1>7 DEF CompletenessInv

LEMMA CompleteDelete ==
    ASSUME TypesFixed, RepairsUndisturbed, SyncTypeOK, AccuracyInv, PhaseInv, CompletenessInv,
           NEW u \in Uid, NEW out \in Outcome, DeleteObject(u, out)
    PROVE  CompletenessInv'
<1> DEFINE obj == cached[u]
           home == EndpointOf[obj.type]
<1>1. /\ pc = "deletes" /\ obj # Absent /\ obj \in RenderedObject
      /\ home \in Endpoint /\ HomesOf(u) = {home}
      /\ Erased(home, u, out) /\ RecordOutcome(u, out)
      /\ scim_new_cache' = AddObject(scim_new_cache, u, AfterDelete(obj, out))
      /\ UNCHANGED <<cacheFile, pc, run, current, cached, all_scim_objects, queried, handled>>
      /\ swept' = swept \cup {<<home, u>>}
  BY DeleteEffect
<1>2. SenderIsPatient'
  BY PatientRequest DEF CompletenessInv
<1>3. CacheIsComplete'
  BY <1>1, RequestLeavesFile DEF CompletenessInv, Erased
<1>4. AfterDelete(obj, out) \in RenderedObject \cup {Absent}
  BY <1>1, AfterTypes
<1>5. ASSUME OnServer(u)'
      PROVE  scim_new_cache'[u] # Absent
  <2>1. OnServer(u) => Holds(home, u)
    BY <1>1, GoneFromHome DEF PhaseInv
  <2>2. OnServer(u)' => Holds(home, u)'
    <3>1. AtHome'
      BY <1>1, RequestAtHome DEF PhaseInv, Erased
    <3>2. \A f \in Endpoint : Holds(f, u)' => f \in HomesOf(u)
      BY <3>1 DEF AtHome, HomesOf
    <3> QED
      BY <1>1, <3>2 DEF OnServer
  <2>3. out \notin {"ok", "missing"}
    BY <1>1, <1>5, <2>1, <2>2 DEF Erased, OnServer, Holds
  <2> QED
    BY <1>1, <1>4, <2>3, AddedToNew DEF AfterDelete
<1>6. QueryKnows' /\ CachedIsComplete' /\ NewCacheIsComplete'
  <2>1. Dealt(u)' /\ \A v \in Uid : v # u => Dealt(v)' = Dealt(v)
    BY <1>1 DEF Dealt, Swept
  <2>2. \A v \in Uid : v # u => scim_new_cache'[v] = scim_new_cache[v]
    BY <1>1, <1>4, AddedToNew
  <2>3. \A e \in Endpoint, v \in Uid : v # u => server'[e][v] = server[e][v]
    BY <1>1 DEF Erased
  <2> QED
    BY <1>1, <1>5, <2>1, <2>2, <2>3, RequestLeavesLists
<1> QED
  BY <1>2, <1>3, <1>6 DEF CompletenessInv

LEMMA CompleteStray ==
    ASSUME TypesFixed, RepairsUndisturbed, SyncTypeOK, AccuracyInv, PhaseInv, CompletenessInv,
           NEW e \in Endpoint, NEW u \in Uid, NEW out \in Outcome, DeleteStray(e, u, out)
    PROVE  CompletenessInv'
<1>1. /\ pc = "deletes" /\ run.rebuild /\ <<e, u>> \in all_scim_objects
      /\ Erased(e, u, out) /\ RecordOutcome(u, out)
      /\ UNCHANGED <<cacheFile, pc, run, current, cached, all_scim_objects, queried, handled,
                     scim_new_cache>>
      /\ swept' = swept \cup {<<e, u>>}
  BY StrayEffect
<1>2. /\ SenderIsPatient'
      /\ out \notin {"error", "refused", "aborted"}
  BY <1>1, PatientRequest DEF CompletenessInv, Repairs
<1>3. CacheIsComplete'
  BY <1>1, RequestLeavesFile DEF CompletenessInv, Erased
<1>4. e \in HomesOf(u)
  BY <1>1 DEF PhaseInv, AtHome
<1>5. ASSUME u \notin new_doubt'
      PROVE  ~OnServer(u)'
  <2>1. out \in {"ok", "missing"}
    BY <1>1, <1>2, <1>5 DEF Erased, RecordOutcome, Definite, Unknown, Outcome
  <2>2. ~Holds(e, u)'
    BY <1>1, <2>1 DEF Erased, Holds
  <2>3. AtHome'
    BY <1>1, <1>4, RequestAtHome DEF PhaseInv, Erased
  <2>4. \A f \in Endpoint : Holds(f, u)' => f \in HomesOf(u)
    BY <2>3 DEF AtHome, HomesOf
  <2> QED
    BY <1>4, <2>2, <2>4, OnlyHome DEF OnServer
<1>6. QueryKnows' /\ CachedIsComplete' /\ NewCacheIsComplete'
  <2>1. Dealt(u)' /\ \A v \in Uid : v # u => Dealt(v)' = Dealt(v)
    BY <1>1 DEF Dealt, Swept
  <2>2. \A f \in Endpoint, v \in Uid : v # u => server'[f][v] = server[f][v]
    BY <1>1 DEF Erased
  <2> QED
    BY <1>1, <1>5, <2>1, <2>2, RequestLeavesLists
<1> QED
  BY <1>2, <1>3, <1>6 DEF CompletenessInv

LEMMA CompleteKeep ==
    ASSUME RepairsUndisturbed, SyncTypeOK, AccuracyInv, PhaseInv, CompletenessInv,
           NEW u \in Uid, CopyObject(u) \/ SkipUnrendered(u)
    PROVE  CompletenessInv'
<1>1. /\ pc = "changes" /\ u \notin handled /\ IsSent(u) /\ handled' = handled \cup {u}
      /\ UNCHANGED <<server, number_of_timeouts, aborted, faults, cacheFile, pc, run, current,
                     cached, all_scim_objects, queried, swept, doubt, new_doubt, touched>>
  BY DEF CopyObject, SkipUnrendered, ChangeFrame, ChangeIsNext, ToChange, senderVars, history
<1>2. PICK kept \in RenderedObject \cup {Absent} :
         /\ scim_new_cache' = AddObject(scim_new_cache, u, kept)
         /\ CopyObject(u) => kept = cached[u] /\ cached[u] # Absent
  <2>1. CASE CopyObject(u)
    <3>1. cached[u] # Absent
      BY <2>1 DEF CopyObject, IsCopy, IsCreate
    <3> QED
      BY <2>1, <3>1 DEF CopyObject, SyncTypeOK, ObjectList
  <2>2. CASE ~CopyObject(u)
    BY <2>2 DEF SkipUnrendered, AddObject
  <2> QED
    BY <2>1, <2>2
<1>3. ASSUME u \notin new_doubt, OnServer(u)
      PROVE  CopyObject(u)
  <2> SUFFICES ASSUME SkipUnrendered(u) PROVE FALSE
    OBVIOUS
  <2>1. run.rebuild \/ cached[u] = Absent
    BY DEF SkipUnrendered, IsCopy, IsCreate, Rendered
  <2>2. Repairs(run) /\ run \in Runs
    BY <1>1, <1>3, <2>1, KnownBefore DEF Repairs, SyncTypeOK
  <2>3. "render" \notin Faults
    BY <2>2 DEF RepairsUndisturbed
  <2>4. pre_rendered[u] = current[u]
    BY <1>1, <2>3 DEF PhaseInv, PhasesDone
  <2> QED
    BY <1>1, <2>4 DEF SkipUnrendered, Rendered, IsSent, IsCurrent
<1>4. \A v \in Uid : OnServer(v)' <=> OnServer(v)
  BY <1>1 DEF OnServer, Holds
<1>5. /\ \A v \in Uid : v # u => scim_new_cache'[v] = scim_new_cache[v]
      /\ u \notin new_doubt /\ OnServer(u) => scim_new_cache'[u] # Absent
  BY <1>2, <1>3, AddedToNew
<1>6. \A v \in Uid : v # u => Dealt(v)' = Dealt(v)
  BY <1>1 DEF Dealt, Swept
<1>7. Dealt(u)'
  BY <1>1 DEF Dealt
<1>8. NewCacheIsComplete'
  BY <1>1, <1>4, <1>5, <1>6 DEF CompletenessInv, NewCacheIsComplete
<1>9. CachedIsComplete'
  BY <1>1, <1>4, <1>6, <1>7 DEF CompletenessInv, CachedIsComplete, IsCurrent
<1>10. QueryKnows'
  BY <1>1, <1>6, <1>7 DEF CompletenessInv, QueryKnows, Holds
<1>11. SenderIsPatient' /\ CacheIsComplete'
  BY <1>1 DEF CompletenessInv, SenderIsPatient, CacheIsComplete, Holds
<1> QED
  BY <1>8, <1>9, <1>10, <1>11 DEF CompletenessInv

LEMMA CompleteEarly ==
    ASSUME SyncTypeOK, AccuracyInv, PhaseInv, CompletenessInv,
           read_cache \/ ThresholdsPass \/ ForceOptions \/ \E e \in Endpoint : QueryEndpoint(e)
    PROVE  CompletenessInv'
<1>1. /\ UNCHANGED <<server, number_of_timeouts, aborted, faults, cacheFile, run, current,
                     scim_new_cache, handled, swept, doubt, touched>>
      /\ pc \in BeforeRequests
  BY DEF read_cache, ThresholdsPass, ForceOptions, QueryEndpoint, BeforeRequests, senderVars,
         history
<1>2. handled = {} /\ swept = {} /\ touched = {}
  BY <1>1 DEF AccuracyInv, QuietAtFirst
<1>3. SenderIsPatient' /\ NewCacheIsComplete' /\ CacheIsComplete'
  BY <1>1, <1>2 DEF CompletenessInv, SenderIsPatient, NewCacheIsComplete, CacheIsComplete, Dealt,
                    Swept, Holds
<1>4. CASE read_cache
  <2>1. /\ pc = "read_cache" /\ pc' = "thresholds" /\ cached' = cacheFile
        /\ new_doubt' = new_doubt
    BY <1>4 DEF read_cache, history
  <2>2. new_doubt = doubt
    BY <2>1 DEF AccuracyInv, QuietAtFirst, BeforeQuery
  <2>3. CachedIsComplete'
    BY <1>1, <1>2, <2>1, <2>2 DEF CompletenessInv, CacheIsComplete, CachedIsComplete, OnServer,
                                  Holds
  <2>4. QueryKnows'
    BY <2>1 DEF QueryKnows, AfterQuery
  <2> QED
    BY <1>3, <2>3, <2>4 DEF CompletenessInv
<1>5. CASE ThresholdsPass
  <2>1. /\ pc = "thresholds"
        /\ UNCHANGED <<cached, new_doubt, queried>>
    BY <1>5 DEF ThresholdsPass, history
  <2>2. queried = {}
    BY <2>1 DEF PhaseInv, PhasesDone, BeforeQuery
  <2>3. QueryKnows'
    BY <2>1, <2>2 DEF QueryKnows
  <2>4. CachedIsComplete'
    BY <1>1, <2>1 DEF CompletenessInv, CachedIsComplete, OnServer, Holds, Dealt, Swept, IsCurrent
  <2> QED
    BY <1>3, <2>3, <2>4 DEF CompletenessInv
<1>6. CASE ForceOptions
  <2>1. /\ pc = "force"
        /\ cached' = RemoveObjects(MakeDirty(cached, run.force_update),
                                   {u \in run.force_create : IsCurrent(u)})
        /\ UNCHANGED <<new_doubt, queried, all_scim_objects>>
    BY <1>6 DEF ForceOptions, history
  <2>2. QueryKnows'
    BY <1>1, <2>1 DEF CompletenessInv, QueryKnows, AfterQuery, Holds, Dealt, Swept
  <2>3. \A u \in Uid : cached[u] # Absent =>
           cached'[u] # Absent \/ (u \in run.force_create /\ IsCurrent(u))
    <3>1. \A u \in Uid : cached[u] # Absent => DummyObject(cached[u]) # Absent
      BY DummyIsObject DEF SyncTypeOK, ObjectList
    <3> QED
      BY <2>1, <3>1 DEF RemoveObjects, MakeDirty
  <2>4. CachedIsComplete'
    BY <1>1, <2>1, <2>3 DEF CompletenessInv, CachedIsComplete, OnServer, Holds, Dealt, Swept,
                            IsCurrent
  <2> QED
    BY <1>3, <2>2, <2>4 DEF CompletenessInv
<1>7. ASSUME NEW e \in Endpoint, QueryEndpoint(e)
      PROVE  CompletenessInv'
  <2>1. /\ pc = "query" /\ run.rebuild
        /\ queried' = queried \cup {e}
        /\ all_scim_objects' = all_scim_objects \cup {<<e, v>> : v \in {w \in Uid : Holds(e, w)}}
        /\ new_doubt' = {u \in new_doubt : Holds(e, u) \/ ~(HomesOf(u) \subseteq {e})}
    BY <1>7 DEF QueryEndpoint, AccuracyInv, QuietAtFirst
  <2>2. CachedIsComplete'
    BY <1>1, <2>1 DEF CachedIsComplete
  <2>3. QueryKnows'
    <3> SUFFICES ASSUME NEW u \in Uid \ new_doubt', NEW f \in queried', Holds(f, u)
                 PROVE  <<f, u>> \in all_scim_objects'
      BY <1>1, <1>2 DEF QueryKnows, Dealt, Swept, Holds
    <3>1. f \in Endpoint
      BY <2>1 DEF SyncTypeOK
    <3>2. CASE f = e
      BY <2>1, <3>2
    <3>3. CASE f # e
      <4>1. f \in HomesOf(u)
        BY <3>1 DEF PhaseInv, AtHome
      <4>2. u \notin new_doubt /\ f \in queried
        BY <2>1, <3>3, <4>1
      <4> QED
        BY <1>2, <2>1, <4>2 DEF CompletenessInv, QueryKnows, Dealt, Swept
    <3> QED
      BY <3>2, <3>3
  <2> QED
    BY <1>3, <2>2, <2>3 DEF CompletenessInv
<1> QED
  BY <1>4, <1>5, <1>6, <1>7

LEMMA CompleteTurns ==
    ASSUME SyncTypeOK, CompletenessInv, RenderAndPreallocate \/ ChangesDone \/ DeletesDone
    PROVE  CompletenessInv'
<1> USE SenderAssumption
<1>1. /\ UNCHANGED <<server, number_of_timeouts, aborted, cacheFile, run, current, cached,
                     all_scim_objects, queried, scim_new_cache, handled, swept, doubt,
                     new_doubt, touched>>
      /\ pc \in AfterQuery
  BY DEF RenderAndPreallocate, ChangesDone, DeletesDone, AfterQuery, senderVars, history
<1>2. faults' = faults \/ (faults' = faults + 1 /\ faults < MaxFaults)
  BY DEF RenderAndPreallocate, ChangesDone, DeletesDone, senderVars, Fault
<1>3. SenderIsPatient'
  BY <1>1, <1>2 DEF CompletenessInv, SenderIsPatient, SyncTypeOK, SenderTypeOK
<1> QED
  BY <1>1, <1>3 DEF CompletenessInv, QueryKnows, CachedIsComplete, NewCacheIsComplete,
                    CacheIsComplete, OnServer, Holds, Dealt, Swept, IsCurrent, AfterQuery

-----------------------------------------------------------------------------
\* The end of a run, the start of one, and the world.

\* Between runs, and until the cache is read, only the cache file counts.
LEMMA CompleteAtFirst ==
    ASSUME SenderIsPatient', CacheIsComplete', handled' = {}, swept' = {},
           pc' \in {"idle", "read_cache"}
    PROVE  CompletenessInv'
BY DEF CompletenessInv, QueryKnows, CachedIsComplete, NewCacheIsComplete, Dealt, Swept, AfterQuery

\* A type that the data source has is sent, and its endpoint is asked.
LEMMA SourceTypesAreSent ==
    ASSUME AllTypesSent, SyncTypeOK, NEW u \in Uid
    PROVE  /\ \A obj : obj # Absent /\ TypedAsSource(obj, u) => obj.type \in SentTypes
           /\ HomesOf(u) \subseteq Endpoints(SentTypes)
           /\ Endpoints(SentTypes) \subseteq Endpoints(OrderedTypes)
<1>1. \A s \in SourceStates : s[u] # Absent => s[u].type \in SentTypes
  BY SyncAssumption DEF AllTypesSent, SentTypes, OrderedTypes, SyncTypeOK
<1> QED
  BY <1>1 DEF TypedAsSource, HomesOf, Endpoints, SentTypes

\* What is on the server at the end of a run, the run has dealt with.
LEMMA DealtAtTheEnd ==
    ASSUME AllTypesSent, SyncTypeOK, AccuracyInv, PhaseInv, CompletenessInv,
           pc = "finalize", NEW u \in Uid \ new_doubt, OnServer(u)
    PROVE  Dealt(u)
<1> SUFFICES ASSUME ~Dealt(u) PROVE FALSE
  OBVIOUS
<1>1. PICK e \in Endpoint : Holds(e, u) /\ e \in HomesOf(u)
  BY DEF OnServer, PhaseInv, AtHome
<1>2. ~IsCurrent(u)
  <2>1. IsCurrent(u) => IsSent(u)
    BY SourceTypesAreSent DEF IsCurrent, IsSent, AccuracyInv, ListsTyped
  <2> QED
    BY <2>1 DEF PhaseInv, PhasesDone, ToChange, Dealt
<1>3. CASE ~run.rebuild
  <2>1. cached[u] # Absent
    BY <1>2, <1>3 DEF CompletenessInv, CachedIsComplete
  <2>2. cached[u].type \in SentTypes
    BY <2>1, SourceTypesAreSent DEF AccuracyInv, ListsTyped
  <2>3. EndpointOf[cached[u].type] \in Endpoint
    BY <2>2, SyncAssumption DEF SentTypes, OrderedTypes
  <2>4. u \in Obsolete
    BY <1>2, <1>3, <2>1, <2>2, <2>3 DEF Obsolete, IsObsolete, IsCurrentAs, Dealt, Swept
  <2> QED
    BY <2>4 DEF PhaseInv, PhasesDone
<1>4. CASE run.rebuild
  <2>1. e \in Endpoints(SentTypes) /\ e \in Endpoints(OrderedTypes)
    BY <1>1, SourceTypesAreSent
  <2>2. <<e, u>> \in all_scim_objects
    BY <1>1, <1>4, <2>1 DEF PhaseInv, PhasesDone, CompletenessInv, QueryKnows, AfterQuery
  <2>3. <<e, u>> \in Strays
    BY <1>2, <1>4, <2>1, <2>2 DEF Strays, Dealt, Swept
  <2> QED
    BY <2>3 DEF PhaseInv, PhasesDone
<1> QED
  BY <1>3, <1>4

\* The cache file a run writes has all that the server has.
LEMMA NewFileIsComplete ==
    ASSUME TypesFixed, AllTypesSent, SyncTypeOK, AccuracyInv, PhaseInv, CompletenessInv,
           pc = "finalize", NEW u \in Uid \ new_doubt, NEW e \in Endpoint, Holds(e, u)
    PROVE  scim_new_cache[u] # Absent /\ EndpointOf[scim_new_cache[u].type] = e
<1>1. e \in HomesOf(u) /\ OnServer(u)
  BY DEF PhaseInv, AtHome, OnServer
<1>2. scim_new_cache[u] # Absent
  BY <1>1, DealtAtTheEnd DEF CompletenessInv, NewCacheIsComplete
<1> QED
  BY <1>1, <1>2, OneHome DEF AccuracyInv, ListsTyped

LEMMA CompleteEnd ==
    ASSUME SyncTypeOK, CompletenessInv, EndRunUnsaved,
           UNCHANGED <<server, number_of_timeouts, aborted>>,
           faults' = faults \/ (faults' = faults + 1 /\ faults < MaxFaults)
    PROVE  CompletenessInv'
<1> USE SenderAssumption
<1>1. SenderIsPatient'
  BY DEF CompletenessInv, SenderIsPatient, SyncTypeOK, SenderTypeOK
<1>2. CacheIsComplete'
  BY DEF EndRunUnsaved, EndRun, CompletenessInv, CacheIsComplete, Holds
<1> QED
  BY <1>1, <1>2, CompleteAtFirst DEF EndRunUnsaved, EndRun

LEMMA CompleteFinalize ==
    ASSUME TypesFixed, AllTypesSent, SyncTypeOK, AccuracyInv, PhaseInv, CompletenessInv,
           FinalizeCacheFile
    PROVE  CompletenessInv'
<1>1. CacheIsComplete'
  BY NewFileIsComplete DEF FinalizeCacheFile, CacheIsComplete, Holds, senderVars
<1>2. SenderIsPatient'
  BY DEF FinalizeCacheFile, CompletenessInv, SenderIsPatient, senderVars
<1> QED
  BY <1>1, <1>2, CompleteAtFirst DEF FinalizeCacheFile, EndRun

LEMMA CompleteStart ==
    ASSUME SyncTypeOK, AccuracyInv, CompletenessInv, NEW r \in Runs, StartRun(r)
    PROVE  CompletenessInv'
<1>1. SenderIsPatient'
  BY DEF StartRun, send_init, CompletenessInv, SenderIsPatient, SyncTypeOK, SenderTypeOK
<1>2. CacheIsComplete'
  BY DEF StartRun, history, CompletenessInv, CacheIsComplete, Holds
<1>3. handled' = {} /\ swept' = {} /\ pc' = "read_cache"
  BY DEF StartRun, AccuracyInv, QuietAtFirst, BeforeRequests
<1> QED
  BY <1>1, <1>2, <1>3, CompleteAtFirst

LEMMA CompleteUncalled ==
    ASSUME SyncTypeOK, PhaseInv, CompletenessInv, NEW u \in Uid, Uncalled(u)
    PROVE  CompletenessInv'
<1> USE SenderAssumption
<1>1. /\ \A e \in Endpoint, v \in Uid : v # u => server'[e][v] = server[e][v]
      /\ AddDoubt(u)
      /\ UNCHANGED <<cacheFile, runVars, number_of_timeouts, aborted>>
      /\ faults' = faults \/ (faults' = faults + 1 /\ faults < MaxFaults)
  BY UncalledEffect DEF PhaseInv
<1>2. SenderIsPatient'
  BY <1>1 DEF CompletenessInv, SenderIsPatient, SyncTypeOK, SenderTypeOK
<1>3. \A v \in Uid : v # u =>
         /\ \A e \in Endpoint : Holds(e, v)' <=> Holds(e, v)
         /\ OnServer(v)' <=> OnServer(v)
  BY <1>1 DEF Holds, OnServer
<1>4. CacheIsComplete'
  BY <1>1, <1>3 DEF CompletenessInv, CacheIsComplete, AddDoubt
<1>5. QueryKnows'
  BY <1>1, <1>3 DEF CompletenessInv, QueryKnows, AddDoubt, runVars, SyncTypeOK, Dealt, Swept
<1>6. CachedIsComplete' /\ NewCacheIsComplete'
  BY <1>1, <1>3 DEF CompletenessInv, CachedIsComplete, NewCacheIsComplete, AddDoubt, runVars,
                    Dealt, Swept, IsCurrent
<1> QED
  BY <1>2, <1>4, <1>5, <1>6 DEF CompletenessInv

LEMMA CompleteHarmed ==
    ASSUME SyncTypeOK, AccuracyInv, CompletenessInv, NEW kind \in {"lost"} \cup Damage,
           CacheFileHarmed(kind)
    PROVE  CompletenessInv'
<1> USE SenderAssumption
<1>1. /\ pc = "idle"
      /\ UNCHANGED <<server, number_of_timeouts, aborted, runVars, touched>>
      /\ faults' = faults + 1 /\ faults < MaxFaults
      /\ doubt' = doubt \cup {u \in Uid : cacheFile[u] # Absent}
  BY DEF CacheFileHarmed, Fault
<1>2. SenderIsPatient'
  BY <1>1 DEF CompletenessInv, SenderIsPatient, SyncTypeOK, SenderTypeOK
<1>3. CacheIsComplete'
  BY <1>1 DEF CompletenessInv, CacheIsComplete, Holds
<1>4. handled' = {} /\ swept' = {} /\ pc' = "idle"
  BY <1>1 DEF runVars, AccuracyInv, QuietAtFirst, BeforeRequests
<1> QED
  BY <1>2, <1>3, <1>4, CompleteAtFirst

LEMMA CompleteInit == SyncInit => CompletenessInv
<1> SUFFICES ASSUME SyncInit PROVE CompletenessInv
  OBVIOUS
<1>1. SenderIsPatient /\ CacheIsComplete
  BY SenderAssumption DEF SyncInit, SenderInit, SenderIsPatient, CacheIsComplete, Holds
<1>2. QueryKnows /\ CachedIsComplete /\ NewCacheIsComplete
  BY DEF SyncInit, QueryKnows, CachedIsComplete, NewCacheIsComplete, AfterQuery, Dealt, Swept
<1> QED
  BY <1>1, <1>2 DEF CompletenessInv

LEMMA CompleteNext ==
    ASSUME TypesFixed, AllTypesSent, RepairsUndisturbed, SyncTypeOK, AccuracyInv, PhaseInv,
           CompletenessInv, [SyncNext]_vars
    PROVE  CompletenessInv'
<1>1. CASE SourceChanges \/ LoadFails \/ (\E req \in late : LateRequestIsLost(req))
              \/ UNCHANGED vars
  <2>1. /\ UNCHANGED <<server, number_of_timeouts, aborted, cacheFile, runVars, history>>
        /\ faults' = faults \/ (faults' = faults + 1 /\ faults < MaxFaults)
    BY <1>1, IdleSteps
  <2>2. SenderIsPatient'
    BY <2>1, SenderAssumption DEF CompletenessInv, SenderIsPatient, SyncTypeOK, SenderTypeOK
  <2> QED
    BY <2>1, <2>2 DEF runVars, history, CompletenessInv, QueryKnows, CachedIsComplete,
          NewCacheIsComplete, CacheIsComplete, OnServer, Holds, Dealt, Swept, IsCurrent
<1>2. CASE ThresholdsStop \/ CacheTruncated \/ (RunFails /\ ~LoadFails)
  BY <1>2, UnsavedEnds, CompleteEnd
<1>3. CASE RunStep
  BY <1>2, <1>3, CompleteEarly, CompleteTurns, CompleteKeep, CompleteChange, CompleteDelete,
     CompleteStray, CompleteFinalize DEF RunStep
<1>4. CASE WorldStep
  <2>1. ASSUME NEW req \in late, LateRequestArrives(req)
        PROVE  CompletenessInv'
    BY <2>1, CompleteUncalled DEF Uncalled, SyncTypeOK, SenderTypeOK, Request
  <2>2. ASSUME NEW u \in Uid, OthersChangeServer(u)
        PROVE  CompletenessInv'
    BY <2>2, CompleteUncalled DEF Uncalled
  <2> QED
    BY <1>1, <1>4, <2>1, <2>2, CompleteHarmed DEF WorldStep
<1> QED
  BY <1>1, <1>2, <1>3, <1>4, CompleteStart DEF SyncNext, RunFails

-----------------------------------------------------------------------------
\* The invariants of every behaviour.

\* A run in which nothing has gone wrong has done what it set out to do for
\* every id it has dealt with (process_changes, process_deletes), and a rebuild
\* has an answer about every other (get_all_objects_from_scim_server).
THEOREM RunInvariant ==
    ASSUME TypesFixed
    PROVE  SyncSpec => []RunInv
<1>1. SyncInit => SyncTypeOK /\ RunInv
  BY TypeInit, AccuracyInit, PhaseInit, CleanInit DEF RunInv
<1>2. SyncTypeOK /\ RunInv /\ [SyncNext]_vars => SyncTypeOK' /\ RunInv'
  BY TypeNext, AccuracyNext, PhaseNext, CleanNext DEF RunInv
<1> QED
  BY <1>1, <1>2, PTL DEF SyncSpec

\* Whatever lists the comparison goes by, the old cache, the server's answers or
\* the new cache, none has lost an object that the client put on the server.
THEOREM CompletenessInvariant ==
    ASSUME TypesFixed, AllTypesSent, RepairsUndisturbed
    PROVE  SyncSpec => []CompletenessInv
<1>1. SyncInit => CompletenessInv
  BY CompleteInit
<1>2. SyncTypeOK /\ RunInv /\ CompletenessInv /\ [SyncNext]_vars => CompletenessInv'
  BY CompleteNext DEF RunInv
<1> QED
  BY <1>1, <1>2, TypeCorrect, RunInvariant, PTL DEF SyncSpec

-----------------------------------------------------------------------------
\* Whatever the client has put on the server, and knows it has, is in the cache
\* file at the endpoint where it is, so that the delete pass (process_deletes)
\* will find it: through timeouts, errors, crashes and damage to the file.
THEOREM CacheCompleteness ==
    ASSUME TypesFixed, AllTypesSent, RepairsUndisturbed
    PROVE  SyncSpec => []CacheIsComplete
<1>1. CompletenessInv => CacheIsComplete
  BY DEF CompletenessInv
<1> QED
  BY <1>1, CompletenessInvariant, PTL

\* A run in which nothing went wrong leaves the server with exactly the data
\* source's objects, except for ids still in doubt (ScimActions::perform).
THEOREM CleanRuns ==
    ASSUME TypesFixed, AllTypesSent, RepairsUndisturbed
    PROVE  SyncSpec => CleanRunMirrors
<1>1. SyncTypeOK /\ RunInv /\ CompletenessInv =>
         [FinalizeCacheFile /\ ~failures =>
             \A u \in Uid \ new_doubt : (IsCurrent(u) => IsSent(u)) => Mirrored(u)]_vars
  <2> SUFFICES ASSUME SyncTypeOK, AccuracyInv, PhaseInv, CleanInv, CompletenessInv,
                      FinalizeCacheFile, ~failures, NEW u \in Uid \ new_doubt,
                      IsCurrent(u) => IsSent(u), NEW e \in Endpoints(SentTypes)
               PROVE  server[e][u] = IF IsCurrent(u) /\ EndpointOf[current[u].type] = e
                                     THEN current[u].json ELSE Absent
    BY DEF Mirrored, RunInv
  <2>1. pc = "finalize" /\ e \in Endpoint
    BY SyncAssumption DEF FinalizeCacheFile, Endpoints, SentTypes, OrderedTypes
  <2>2. CASE IsCurrent(u)
    <3>1. u \in handled
      BY <2>1, <2>2 DEF PhaseInv, PhasesDone, ToChange
    <3>2. HomesOf(u) = {EndpointOf[current[u].type]}
      BY <2>2, OneHome DEF IsCurrent, AccuracyInv, ListsTyped
    <3> QED
      BY <2>1, <2>2, <3>1, <3>2 DEF CleanInv, CleanSoFar, PhaseInv, AtHome, Holds
  <2>3. CASE ~IsCurrent(u)
    <3>1. OnServer(u) => Swept(u)
      BY <2>1, <2>3, DealtAtTheEnd DEF Dealt, AccuracyInv, PassRecords
    <3> QED
      BY <2>1, <2>3, <3>1 DEF CleanInv, CleanSoFar, OnServer, Holds
  <2> QED
    BY <2>2, <2>3
<1> QED
  BY <1>1, TypeCorrect, RunInvariant, CompletenessInvariant, PTL DEF CleanRunMirrors

\* After a rebuild in which nothing went wrong no id is in doubt, whatever the
\* old cache file and earlier requests had come to.
THEOREM RebuildsSettle ==
    ASSUME TypesFixed, AllTypesSent
    PROVE  SyncSpec => RebuildSettles
<1>1. SyncTypeOK /\ RunInv =>
         [FinalizeCacheFile /\ run.rebuild /\ ~failures => new_doubt = {}]_vars
  <2> SUFFICES ASSUME SyncTypeOK, AccuracyInv, PhaseInv, CleanInv, FinalizeCacheFile,
                      run.rebuild, ~failures, NEW u \in new_doubt
               PROVE  FALSE
    BY DEF RunInv
  <2>1. pc = "finalize" /\ u \in Uid
    BY DEF FinalizeCacheFile, SyncTypeOK
  <2>2. ~Dealt(u) /\ \A f \in HomesOf(u) \cap queried : <<f, u>> \in all_scim_objects
    BY <2>1 DEF CleanInv, RebuildAsks, AfterQuery
  <2>3. PICK e \in HomesOf(u) : TRUE
    BY <2>1 DEF PhaseInv, AtHome
  <2>4. e \in Endpoints(SentTypes) /\ e \in queried
    BY <2>1, <2>3, SourceTypesAreSent DEF PhaseInv, PhasesDone, AfterQuery
  <2>5. ~IsCurrent(u)
    <3>1. IsCurrent(u) => IsSent(u)
      BY <2>1, SourceTypesAreSent DEF IsCurrent, IsSent, AccuracyInv, ListsTyped
    <3> QED
      BY <2>1, <2>2, <3>1 DEF PhaseInv, PhasesDone, ToChange, Dealt
  <2>6. <<e, u>> \notin swept
    BY <2>1, <2>2, <2>3, HomesAreEndpoints DEF Dealt, Swept
  <2>7. <<e, u>> \in Strays
    BY <2>2, <2>4, <2>5, <2>6 DEF Strays
  <2> QED
    BY <2>1, <2>7 DEF PhaseInv, PhasesDone
<1> QED
  BY <1>1, TypeCorrect, RunInvariant, PTL DEF RebuildSettles

\* An object whose delete did not succeed stays in the cache file for the next
\* run to delete (create_func and delete_func, estimate_objects): where no run
\* rebuilds, or where runs that do are not disturbed.
THEOREM DeletesAreKept ==
    ASSUME TypesFixed,
           (\A r \in Runs : ~r.rebuild) \/ (AllTypesSent /\ RepairsUndisturbed)
    PROVE  SyncSpec => FailedDeletesAreKept
<1> DEFINE Kept ==
       FinalizeCacheFile =>
          \A u \in Uid \ new_doubt :
              /\ cached[u] # Absent /\ cached[u].type \in SentTypes
              /\ ~IsCurrent(u)
              /\ Holds(EndpointOf[cached[u].type], u)
              => cacheFile'[u] # Absent
<1>1. CASE \A r \in Runs : ~r.rebuild
  <2>1. SyncTypeOK /\ PhaseInv => [Kept]_vars
    <3> SUFFICES ASSUME SyncTypeOK, PhaseInv, FinalizeCacheFile, NEW u \in Uid \ new_doubt,
                        cached[u] # Absent, cached[u].type \in SentTypes, ~IsCurrent(u),
                        Holds(EndpointOf[cached[u].type], u)
                 PROVE  cacheFile'[u] # Absent
      OBVIOUS
    <3>1. pc = "finalize" /\ cacheFile' = scim_new_cache /\ ~run.rebuild
      BY <1>1 DEF FinalizeCacheFile, SyncTypeOK
    <3>2. u \notin Obsolete
      BY <3>1 DEF PhaseInv, PhasesDone
    <3>3. <<EndpointOf[cached[u].type], u>> \in swept
      BY <3>1, <3>2 DEF Obsolete, IsObsolete, IsCurrentAs
    <3>4. EndpointOf[cached[u].type] \in Endpoint
      BY <3>3 DEF SyncTypeOK
    <3> QED
      BY <3>1, <3>3, <3>4 DEF PhaseInv, SweptIsKept
  <2> QED
    BY <2>1, TypeCorrect, PhaseInvariant, PTL DEF FailedDeletesAreKept
<1>2. CASE AllTypesSent /\ RepairsUndisturbed
  <2>1. SyncTypeOK /\ AccuracyInv /\ PhaseInv /\ CompletenessInv => [Kept]_vars
    <3> SUFFICES ASSUME SyncTypeOK, AccuracyInv, PhaseInv, CompletenessInv, FinalizeCacheFile,
                        NEW u \in Uid \ new_doubt, cached[u].type \in SentTypes,
                        Holds(EndpointOf[cached[u].type], u)
                 PROVE  cacheFile'[u] # Absent
      OBVIOUS
    <3>1. EndpointOf[cached[u].type] \in Endpoint
      BY SyncAssumption DEF SentTypes, OrderedTypes
    <3> QED
      BY <1>2, <3>1, NewFileIsComplete DEF FinalizeCacheFile
  <2> QED
    BY <1>2, <2>1, TypeCorrect, AccuracyInvariant, PhaseInvariant, CompletenessInvariant, PTL
       DEF FailedDeletesAreKept
<1> QED
  BY <1>1, <1>2

-----------------------------------------------------------------------------
\* The status file.

LEMMA CachedInit == SyncInit => CachedIsCacheFile
BY DEF SyncInit, CachedIsCacheFile

LEMMA CachedNext ==
    ASSUME SyncTypeOK, CachedIsCacheFile, [SyncNext]_vars
    PROVE  CachedIsCacheFile'
<1> SUFFICES ASSUME pc' \notin {"idle", "read_cache"} PROVE CachedIsCacheFile'
  BY DEF CachedIsCacheFile
<1>1. CASE read_cache
  <2>1. Recreated' = {} /\ cached' = cacheFile /\ cacheFile' = cacheFile
    BY <1>1 DEF read_cache, Recreated
  <2>2. \A u \in Uid : RemoveObjects(cacheFile, {})[u] = cacheFile[u]
    BY DEF RemoveObjects
  <2> QED
    BY <2>1, <2>2 DEF CachedIsCacheFile, SameKind
<1>2. CASE ForceOptions
  <2>1. /\ pc = "force" /\ cacheFile' = cacheFile /\ Recreated = {}
        /\ cached' = RemoveObjects(MakeDirty(cached, run.force_update), Recreated')
    BY <1>2 DEF ForceOptions, Recreated, IsCurrent
  <2>2. \A u \in Uid : cached[u] # Absent => /\ DummyObject(cached[u]) # Absent
                                            /\ DummyObject(cached[u]).type = cached[u].type
    BY DummyIsObject DEF SyncTypeOK, ObjectList
  <2>3. \A u \in Uid : SameKind(cached[u], cacheFile[u])
    BY <2>1 DEF CachedIsCacheFile, RemoveObjects
  <2>4. \A u \in Uid : SameKind(cached'[u], RemoveObjects(cacheFile, Recreated')[u])
    BY <2>1, <2>2, <2>3 DEF RemoveObjects, MakeDirty, SameKind
  <2> QED
    BY <2>1, <2>4 DEF CachedIsCacheFile
<1>3. CASE ~read_cache /\ ~ForceOptions
  <2>   DEFINE late_pcs == {"begin", "changes", "deletes", "finalize"}
  <2>1. /\ UNCHANGED <<cached, cacheFile, run, current>> /\ pc \notin {"idle", "read_cache"}
        /\ pc \in late_pcs <=> pc' \in late_pcs
    <3>1. ~EndRun /\ ~\E r \in Runs : StartRun(r)
      BY DEF EndRun, StartRun
    <3>2. CASE RunStep
      BY <1>3, <3>1, <3>2 DEF RunStep, CacheTruncated, ThresholdsPass, ThresholdsStop,
         QueryEndpoint, RenderAndPreallocate, CopyObject, SkipUnrendered, CreateObject,
         UpdateObject, ChangesDone, DeleteObject, DeleteStray, DeletesDone, FinalizeCacheFile,
         ChangeFrame, DeleteFrame, ChangeIsNext, EndRunUnsaved
    <3>3. CASE WorldStep
      BY <3>3 DEF WorldStep, SourceChanges, LateRequestArrives, LateRequestIsLost,
         OthersChangeServer, CacheFileHarmed, runVars
    <3>4. CASE RunFails
      <4>1. LoadFails
        BY <3>1, <3>4, UnsavedEnds DEF EndRunUnsaved
      <4> QED
        BY <4>1 DEF LoadFails, runVars
    <3>5. CASE UNCHANGED vars
      BY <3>5 DEF vars, runVars
    <3> QED
      BY <3>1, <3>2, <3>3, <3>4, <3>5 DEF SyncNext
  <2>2. Recreated' = Recreated
    BY <2>1 DEF Recreated, IsCurrent
  <2> QED
    BY <2>1, <2>2 DEF CachedIsCacheFile
<1> QED
  BY <1>1, <1>2, <1>3

\* How a run ends that has read the cache.
LEMMA EndsWithStatus ==
    ASSUME [SyncNext]_vars, pc \notin {"idle", "read_cache"}, pc' = "idle", ~Crash, ~SettingMissing
    PROVE  \/ statusFile' = cached /\ cacheFile' = cacheFile
           \/ FinalizeCacheFile
<1>1. CASE RunStep
  BY <1>1 DEF RunStep, read_cache, CacheTruncated, ThresholdsPass, ThresholdsStop, QueryEndpoint,
     ForceOptions, RenderAndPreallocate, CopyObject, SkipUnrendered, CreateObject, UpdateObject,
     ChangesDone, DeleteObject, DeleteStray, DeletesDone, ChangeFrame, DeleteFrame, ChangeIsNext,
     EndRunUnsaved
<1>2. CASE RunFails
  BY <1>2 DEF RunFails, LoadFails, CacheUnreadable, QueryFails, PreallocationFails, FinalizeFails,
     EndRunUnsaved
<1>3. CASE WorldStep
  BY <1>3 DEF WorldStep, SourceChanges, LateRequestArrives, LateRequestIsLost,
     OthersChangeServer, CacheFileHarmed, runVars
<1> QED
  BY <1>1, <1>2, <1>3 DEF SyncNext, StartRun, vars, runVars

\* Once the cache is read, a run that is not killed and lacks no setting leaves a
\* status file with the numbers of the objects in the cache file, if it failed
\* without those of --force-create (run_main): with any command lines and faults.
THEOREM StatusFileTellsCache == SyncSpec => StatusTellsCache
<1>1. SyncInit => SyncTypeOK /\ CachedIsCacheFile
  BY TypeInit, CachedInit
<1>2. SyncTypeOK /\ CachedIsCacheFile /\ [SyncNext]_vars => SyncTypeOK' /\ CachedIsCacheFile'
  BY TypeNext, CachedNext
<1>   DEFINE reported == IF FinalizeCacheFile THEN cacheFile'
                         ELSE RemoveObjects(cacheFile', Recreated)
<1>3. SyncTypeOK /\ CachedIsCacheFile /\ [SyncNext]_vars =>
         [pc \notin {"idle", "read_cache"} /\ pc' = "idle" /\ ~Crash /\ ~SettingMissing =>
             \A t \in Type : Count(statusFile', t) = Count(reported, t)]_vars
  <2> SUFFICES ASSUME CachedIsCacheFile, [SyncNext]_vars, pc \notin {"idle", "read_cache"},
                      pc' = "idle", ~Crash, ~SettingMissing, NEW t \in Type
               PROVE  Count(statusFile', t) = Count(reported, t)
    OBVIOUS
  <2>1. CASE FinalizeCacheFile
    <3>1. statusFile' = cacheFile' /\ reported = cacheFile'
      BY <2>1 DEF FinalizeCacheFile
    <3> QED
      BY <3>1
  <2>2. CASE ~FinalizeCacheFile
    <3>1. statusFile' = cached /\ cacheFile' = cacheFile
      BY <2>2, EndsWithStatus
    <3>2. PICK rest : rest = RemoveObjects(cacheFile, Recreated)
      OBVIOUS
    <3>3. {u \in Uid : cached[u] # Absent /\ cached[u].type = t}
             = {u \in Uid : rest[u] # Absent /\ rest[u].type = t}
      BY <3>2 DEF CachedIsCacheFile, SameKind
    <3>4. Count(cached, t) = Count(rest, t)
      BY <3>3 DEF Count
    <3>5. reported = rest
      BY <2>2, <3>1, <3>2
    <3>   HIDE DEF reported
    <3> QED
      BY <3>1, <3>4, <3>5
  <2> QED
    BY <2>1, <2>2
<1> QED
  BY <1>1, <1>2, <1>3, PTL DEF SyncSpec, StatusTellsCache

-----------------------------------------------------------------------------
\* Requests that nothing goes wrong with.

LEMMA AnsweredByServer ==
    ASSUME SenderTypeOK, Faultless, faults' = 0, NEW req, NEW out, Send(req, out)
    PROVE  /\ out = Respond(req)
           /\ UNCHANGED <<late, aborted>>
BY DEF Faultless, SenderTypeOK, Send, CurlFails, Fault

LEMMA SendCounts ==
    ASSUME NEW req, NEW out, Send(req, out)
    PROVE  faults' = faults \/ faults' = faults + 1
BY DEF Send, CurlFails, Fault, senderVars

LEMMA PlainRun ==
    ASSUME NoRepairs, SyncTypeOK
    PROVE  ~run.rebuild /\ run.force_create = {}
BY DEF NoRepairs, Repairs, SyncTypeOK

\* A request that is answered with success leaves nothing in doubt.
LEMMA SuccessRecorded ==
    ASSUME Faultless, NEW u \in Uid, RecordOutcome(u, "ok")
    PROVE  ~failures' /\ doubt' = {} /\ new_doubt' = {}
<1>1. failures' = (failures \/ "ok" # "ok")
  BY DEF RecordOutcome
<1>2. ~failures'
  BY <1>1 DEF Faultless
<1>3. doubt' = doubt /\ \A v \in new_doubt' : v \in new_doubt
  BY DEF RecordOutcome, Definite, Unknown
<1> QED
  BY <1>2, <1>3 DEF Faultless

\* An object is created that the server has not, and one updated that it has.
LEMMA ChangeSucceeds ==
    ASSUME TypesFixed, NoRepairs, SyncTypeOK, RunInv, CompletenessInv, Faultless, faults' = 0,
           NEW u \in Uid, NEW out \in Outcome, CreateObject(u, out) \/ UpdateObject(u, out)
    PROVE  out = "ok" /\ UNCHANGED <<late, aborted>>
<1> DEFINE home == EndpointOf[current[u].type]
<1>1. /\ pc = "changes" /\ swept = {} /\ u \notin handled /\ pre_rendered[u] = current[u]
      /\ current[u] # Absent /\ home \in Endpoint
  BY ChangeEffect DEF RunInv
<1>2. ~run.rebuild /\ run.force_create = {} /\ ~Dealt(u) /\ u \notin new_doubt
  BY <1>1, PlainRun DEF Faultless, Dealt, Swept
<1>3. HomesOf(u) = {home}
  BY <1>1, OneHome DEF RunInv, AccuracyInv, ListsTyped
<1>4. CASE CreateObject(u, out)
  <2>1. ~OnServer(u)
    BY <1>1, <1>2, <1>4 DEF CreateObject, IsCreate, CompletenessInv, CachedIsComplete
  <2> DEFINE req == [op |-> "POST", endpoint |-> home, uid |-> u, json |-> current[u].json]
  <2>2. Send(req, out)
    BY <1>1, <1>4 DEF CreateObject
  <2>3. Respond(req) = "ok"
    BY <1>1, <2>1 DEF Respond, OnServer
  <2> HIDE DEF req
  <2> QED
    BY <2>2, <2>3, AnsweredByServer DEF SyncTypeOK
<1>5. CASE UpdateObject(u, out)
  <2>1. OnServer(u)
    BY <1>1, <1>2, <1>5 DEF UpdateObject, IsUpdate, IsCreate, Faultless, ListsOnServer
  <2>2. Holds(home, u)
    BY <1>3, <2>1 DEF RunInv, PhaseInv, AtHome, OnServer
  <2> DEFINE req == [op |-> "PUT", endpoint |-> home, uid |-> u, json |-> current[u].json]
  <2>3. Send(req, out)
    BY <1>1, <1>5 DEF UpdateObject
  <2>4. Respond(req) = "ok"
    BY <2>2 DEF Respond
  <2> HIDE DEF req
  <2> QED
    BY <2>3, <2>4, AnsweredByServer DEF SyncTypeOK
<1> QED
  BY <1>4, <1>5

\* What is deleted, the server has.
LEMMA DeleteSucceeds ==
    ASSUME TypesFixed, SyncTypeOK, RunInv, Faultless, faults' = 0,
           NEW u \in Uid, NEW out \in Outcome, DeleteObject(u, out)
    PROVE  out = "ok" /\ UNCHANGED <<late, aborted>>
<1> DEFINE home == EndpointOf[cached[u].type]
           req == [op |-> "DELETE", endpoint |-> home, uid |-> u, json |-> Absent]
<1>1. /\ pc = "deletes" /\ u \notin handled /\ ~Swept(u) /\ cached[u] # Absent
      /\ HomesOf(u) = {home}
  BY DeleteEffect DEF RunInv
<1>2. Holds(home, u)
  BY <1>1 DEF Faultless, ListsOnServer, Dealt, RunInv, PhaseInv, AtHome, OnServer
<1>3. Send(req, out)
  BY DEF DeleteObject
<1>4. Respond(req) = "ok"
  BY <1>2 DEF Respond
<1> HIDE DEF req
<1> QED
  BY <1>3, <1>4, AnsweredByServer DEF SyncTypeOK

-----------------------------------------------------------------------------
\* The changes: an object comes after those it refers to.

\* When it is an object's turn, the server has all that its body refers to.
LEMMA ReferredToIsThere ==
    ASSUME AllTypesSent, ReferencesInOrder, SyncTypeOK, RunInv, FaultlessInv, Faultless,
           NEW u \in Uid, ChangeIsNext(u), current[u].json \in Json,
           NEW v \in References[current[u].json]
    PROVE  OnServer(v)
<1>1. IsCurrent(u) /\ current \in SourceStates
  BY DEF ChangeIsNext, ToChange, IsSent, IsCurrent, FaultlessInv, EmptyList
<1>2. v \in Uid /\ run \in Runs
  BY SyncAssumption DEF SyncTypeOK
<1>3. IsCurrent(v) /\ run.order[current[v].type] < run.order[current[u].type]
  BY <1>1, <1>2 DEF ReferencesInOrder, IsCurrent
<1>4. current[u] \in SourceObject /\ current[v] \in SourceObject
  BY <1>1, <1>2, <1>3 DEF SyncTypeOK, IsCurrent
<1>5. run.order \in [Type -> Nat]
  BY <1>2, SyncAssumption DEF CommandLine
<1>6. v \notin ToChange
  BY <1>3, <1>4, <1>5 DEF ChangeIsNext
<1>7. IsSent(v)
  BY <1>2, <1>3, SourceTypesAreSent DEF IsCurrent, IsSent, RunInv, AccuracyInv, ListsTyped
<1>8. v \in handled
  BY <1>2, <1>6, <1>7 DEF ToChange
<1>9. server[EndpointOf[current[v].type]][v] = current[v].json
  BY <1>2, <1>8 DEF RunInv, CleanInv, CleanSoFar, Faultless
<1>10. EndpointOf[current[v].type] \in Endpoint /\ current[v].json \in Json
  BY <1>4, SyncAssumption
<1> QED
  BY <1>9, <1>10, RenderedAssumption DEF OnServer, Holds

LEMMA FaultlessChange ==
    ASSUME TypesFixed, AllTypesSent, NoRepairs, ReferencesInOrder, SyncTypeOK, RunInv,
           CompletenessInv, FaultlessInv, Faultless, faults' = 0,
           NEW u \in Uid, NEW out \in Outcome, CreateObject(u, out) \/ UpdateObject(u, out)
    PROVE  Faultless'
<1> DEFINE obj == current[u]
<1>0. PICK home \in Endpoint : home = EndpointOf[obj.type]
  BY ChangeEffect DEF RunInv
<1>1. /\ pc = "changes" /\ pre_rendered[u] = obj /\ obj \in SourceObject /\ obj # Absent
      /\ obj.json \in Json
      /\ Written(obj, u, out) /\ RecordOutcome(u, out)
      /\ UNCHANGED <<cacheFile, pc, cached, swept>>
      /\ handled' = handled \cup {u}
  BY ChangeEffect DEF RunInv
<1>2. out = "ok" /\ UNCHANGED <<late, aborted>>
  BY ChangeSucceeds
<1>3. ~failures' /\ doubt' = {} /\ new_doubt' = {}
  BY <1>1, <1>2, SuccessRecorded
<1>4. /\ server'[home][u] = obj.json
      /\ \A e \in Endpoint, v \in Uid : e # home \/ v # u => server'[e][v] = server[e][v]
  BY <1>0, <1>1, <1>2 DEF Written
<1>5. Holds(home, u)' /\ \A e \in Endpoint, v \in Uid : Holds(e, v) => Holds(e, v)'
  <2>1. obj.json # Absent
    BY <1>1, RenderedAssumption
  <2>2. Holds(home, u)'
    BY <1>4, <2>1 DEF Holds
  <2>3. \A e \in Endpoint, v \in Uid : e # home \/ v # u => (Holds(e, v) <=> Holds(e, v)')
    BY <1>4 DEF Holds
  <2> QED
    BY <2>2, <2>3
<1>6. \A v : OnServer(v) /\ v \in Uid => OnServer(v)'
  BY <1>5 DEF OnServer
<1>7. ServerFromSource'
  <2>1. obj = current[u] /\ current \in SourceStates
    BY <1>1 DEF FaultlessInv, EmptyList
  <2> QED
    BY <1>1, <1>4, <2>1 DEF Faultless, ServerFromSource, Holds
<1>8. ListsOnServer'
  <2>1. OnServer(u)'
    BY <1>5 DEF OnServer
  <2>2. \A v \in Uid : v # u => scim_new_cache'[v] = scim_new_cache[v]
    <3>1. obj \in RenderedObject
      BY <1>1, SourceObjectIsRendered
    <3>2. \E after \in RenderedObject \cup {Absent} :
             scim_new_cache' = AddObject(scim_new_cache, u, after)
      BY <1>1, <3>1, AfterTypes DEF CreateObject, UpdateObject
    <3> QED
      BY <3>2, AddedToNew
  <2>3. \A v \in Uid : v # u => (Dealt(v)' <=> Dealt(v))
    BY <1>1 DEF Dealt, Swept
  <2> QED
    BY <1>1, <1>6, <2>1, <2>2, <2>3 DEF Faultless, ListsOnServer
<1>9. NothingDangles'
  <2> SUFFICES ASSUME NEW e \in Endpoint, NEW w \in Uid, Holds(e, w)',
                      NEW v \in References[server'[e][w]]
               PROVE  OnServer(v)'
    BY DEF NothingDangles
  <2>1. server'[e][w] \in Json
    <3>1. SenderTypeOK'
      BY TypeNext DEF SyncTypeOK, SyncNext, RunStep
    <3> QED
      BY <3>1 DEF SenderTypeOK, Holds
  <2>2. v \in Uid
    BY <2>1, SyncAssumption
  <2>3. OnServer(v)
    <3>1. CASE e = home /\ w = u
      <4>1. ChangeIsNext(u)
        BY DEF CreateObject, UpdateObject
      <4> QED
        BY <1>1, <1>4, <3>1, <4>1, ReferredToIsThere
    <3>2. CASE e # home \/ w # u
      BY <1>4, <3>2 DEF Faultless, NothingDangles, Holds
    <3> QED
      BY <3>1, <3>2
  <2> QED
    BY <1>6, <2>2, <2>3
<1> QED
  BY <1>2, <1>3, <1>7, <1>8, <1>9 DEF Faultless

-----------------------------------------------------------------------------
\* The deletes: an object goes before those it refers to.

LEMMA OneTypeOnly ==
    ASSUME TypesFixed, NEW u \in Uid, NEW s \in SourceStates, s[u] # Absent,
           NEW obj, obj # Absent, TypedAsSource(obj, u)
    PROVE  obj.type = s[u].type
BY DEF TypesFixed, TypedAsSource

\* When an object's turn has come to be deleted, nothing on the server refers to it.
LEMMA NothingRefersToIt ==
    ASSUME TypesFixed, AllTypesSent, NoRepairs, ReferencesInOrder, SyncTypeOK, RunInv,
           CompletenessInv, FaultlessInv, Faultless,
           NEW u \in Uid, NEW out \in Outcome, DeleteObject(u, out),
           NEW e \in Endpoint, NEW w \in Uid, Holds(e, w)
    PROVE  u \notin References[server[e][w]]
<1> SUFFICES ASSUME u \in References[server[e][w]] PROVE FALSE
  OBVIOUS
<1>1. /\ pc = "deletes" /\ ~IsCurrent(u) /\ cached[u] # Absent
      /\ ~run.rebuild /\ run.force_create = {} /\ run \in Runs
  BY DeleteEffect, PlainRun DEF RunInv, SyncTypeOK
<1>2. PICK s \in SourceStates : s[w] # Absent /\ s[w].json = server[e][w]
  BY DEF Faultless, ServerFromSource
<1>3. s[u] # Absent /\ run.order[s[u].type] < run.order[s[w].type]
  BY <1>1, <1>2 DEF ReferencesInOrder
<1>4. OnServer(w)
  BY DEF OnServer
<1>5. CASE IsCurrent(w)
  <2>1. current \in SourceStates
    BY <1>5 DEF FaultlessInv, IsCurrent, EmptyList
  <2>2. IsSent(w)
    BY <1>5, SourceTypesAreSent DEF IsCurrent, IsSent, RunInv, AccuracyInv, ListsTyped
  <2>3. w \in handled
    BY <1>1, <2>2 DEF RunInv, PhaseInv, PhasesDone, ToChange
  <2>4. HomesOf(w) = {EndpointOf[current[w].type]}
    BY <1>5, OneHome DEF IsCurrent, RunInv, AccuracyInv, ListsTyped
  <2>5. server[e][w] = current[w].json
    BY <2>3, <2>4 DEF RunInv, CleanInv, CleanSoFar, Faultless, PhaseInv, AtHome
  <2> QED
    BY <1>1, <1>5, <2>1, <2>5 DEF ReferencesInOrder, IsCurrent
<1>6. CASE ~IsCurrent(w)
  <2>1. ~Swept(w) /\ ~Dealt(w)
    BY <1>4, <1>6 DEF RunInv, AccuracyInv, PassRecords, CleanInv, CleanSoFar, Faultless, Dealt
  <2>2. cached[w] # Absent
    BY <1>1, <1>4, <2>1 DEF CompletenessInv, CachedIsComplete, Faultless
  <2>3. cached[w].type = s[w].type /\ cached[u].type = s[u].type
    BY <1>1, <1>2, <1>3, <2>2, OneTypeOnly DEF RunInv, AccuracyInv, ListsTyped
  <2>4. cached[w].type \in SentTypes /\ cached[u].type \in SentTypes
    BY <1>1, <2>2, SourceTypesAreSent DEF RunInv, AccuracyInv, ListsTyped
  <2>5. w \in Obsolete
    <3>1. EndpointOf[cached[w].type] \in Endpoint
      BY <2>4, SyncAssumption DEF SentTypes, OrderedTypes
    <3> QED
      BY <1>1, <1>6, <2>1, <2>2, <2>4, <3>1 DEF Obsolete, IsObsolete, IsCurrentAs, Swept
  <2>6. run.order[cached[w].type] <= run.order[cached[u].type]
    BY <2>5 DEF DeleteObject
  <2>7. run.order[cached[w].type] \in Nat /\ run.order[cached[u].type] \in Nat
    BY <1>1, <2>4, SyncAssumption DEF CommandLine, SentTypes, OrderedTypes
  <2> QED
    BY <1>3, <2>3, <2>6, <2>7
<1> QED
  BY <1>5, <1>6

LEMMA FaultlessDelete ==
    ASSUME TypesFixed, AllTypesSent, NoRepairs, ReferencesInOrder, SyncTypeOK, RunInv,
           CompletenessInv, FaultlessInv, Faultless, faults' = 0,
           NEW u \in Uid, NEW out \in Outcome, DeleteObject(u, out)
    PROVE  Faultless'
<1>0. PICK home \in Endpoint : home = EndpointOf[cached[u].type]
  BY DeleteEffect DEF RunInv
<1>1. /\ pc = "deletes" /\ scim_new_cache[u] = Absent
      /\ Erased(home, u, out) /\ RecordOutcome(u, out)
      /\ scim_new_cache' = AddObject(scim_new_cache, u, AfterDelete(cached[u], out))
      /\ UNCHANGED <<cacheFile, pc, cached, handled>>
      /\ swept' = swept \cup {<<home, u>>}
  BY <1>0, DeleteEffect DEF RunInv
<1>2. out = "ok" /\ UNCHANGED <<late, aborted>>
  BY DeleteSucceeds
<1>3. ~failures' /\ doubt' = {} /\ new_doubt' = {}
  BY <1>1, <1>2, SuccessRecorded
<1>4. /\ server'[home][u] = Absent
      /\ \A e \in Endpoint, v \in Uid : e # home \/ v # u => server'[e][v] = server[e][v]
  BY <1>1, <1>2 DEF Erased
<1>5. /\ \A e \in Endpoint, v \in Uid : Holds(e, v)' => Holds(e, v) /\ server'[e][v] = server[e][v]
      /\ \A v \in Uid : v # u /\ OnServer(v) => OnServer(v)'
  BY <1>4 DEF Holds, OnServer
<1>6. ServerFromSource'
  BY <1>5 DEF Faultless, ServerFromSource
<1>7. ListsOnServer'
  <2>1. scim_new_cache' = scim_new_cache
    BY <1>1, <1>2 DEF AfterDelete, AddObject
  <2>2. Dealt(u)' /\ \A v \in Uid : v # u => (Dealt(v)' <=> Dealt(v))
    BY <1>1 DEF Dealt, Swept
  <2> QED
    BY <1>1, <1>5, <2>1, <2>2 DEF Faultless, ListsOnServer, BeforeRequests
<1>8. NothingDangles'
  <2> SUFFICES ASSUME NEW e \in Endpoint, NEW w \in Uid, Holds(e, w)',
                      NEW v \in References[server'[e][w]]
               PROVE  OnServer(v)'
    BY DEF NothingDangles
  <2>1. Holds(e, w) /\ v \in References[server[e][w]]
    BY <1>5
  <2>2. OnServer(v)
    BY <2>1 DEF Faultless, NothingDangles
  <2>3. v # u
    BY <2>1, NothingRefersToIt
  <2>4. v \in Uid
    BY <2>1, SyncAssumption DEF SyncTypeOK, SenderTypeOK, Holds
  <2> QED
    BY <1>5, <2>2, <2>3, <2>4
<1> QED
  BY <1>2, <1>3, <1>6, <1>7, <1>8 DEF Faultless

-----------------------------------------------------------------------------
\* Steps without a request.

\* The lists of a run have nothing new, and the server stays as it was.
LEMMA FaultlessLists ==
    ASSUME Faultless, ListsOnServer', UNCHANGED <<server, aborted, failures>>,
           late' \subseteq late, doubt' = {}, new_doubt' = {}
    PROVE  Faultless'
<1>1. ServerFromSource' /\ NothingDangles'
  BY DEF Faultless, ServerFromSource, NothingDangles, OnServer, Holds
<1> QED
  BY <1>1 DEF Faultless

LEMMA FaultlessKeep ==
    ASSUME NoRepairs, SyncTypeOK, RunInv, Faultless, NEW u \in Uid,
           CopyObject(u) \/ SkipUnrendered(u)
    PROVE  Faultless'
<1>1. /\ UNCHANGED <<server, late, aborted, cacheFile, pc, cached, swept, doubt, new_doubt,
                     failures>>
      /\ pc = "changes" /\ u \notin handled /\ handled' = handled \cup {u}
  BY DEF CopyObject, SkipUnrendered, ChangeFrame, ChangeIsNext, ToChange, senderVars, history
<1>2. ~Dealt(u)
  BY <1>1 DEF RunInv, AccuracyInv, QuietAtFirst, Dealt, Swept
<1>3. \A v \in Uid : scim_new_cache'[v] # Absent => scim_new_cache[v] # Absent \/ OnServer(v)
  <2>1. CASE CopyObject(u)
    <3>1. cached[u] # Absent /\ cached[u] \in RenderedObject
      BY <2>1, PlainRun DEF CopyObject, IsCopy, IsCreate, SyncTypeOK, ObjectList
    <3>2. OnServer(u)
      BY <1>1, <1>2, <3>1 DEF Faultless, ListsOnServer
    <3>3. \A v \in Uid : v # u => scim_new_cache'[v] = scim_new_cache[v]
      BY <2>1, <3>1, AddedToNew DEF CopyObject
    <3> QED
      BY <3>2, <3>3
  <2>2. CASE SkipUnrendered(u)
    BY <2>2 DEF SkipUnrendered
  <2> QED
    BY <2>1, <2>2
<1>4. \A v \in Uid : Dealt(v) => Dealt(v)'
  BY <1>1 DEF Dealt, Swept
<1>5. \A v : OnServer(v)' <=> OnServer(v)
  BY <1>1 DEF OnServer, Holds
<1>6. ListsOnServer'
  BY <1>1, <1>3, <1>4, <1>5 DEF Faultless, ListsOnServer, BeforeRequests
<1> QED
  BY <1>1, <1>6, FaultlessLists DEF Faultless

LEMMA FaultlessEarly ==
    ASSUME NoRepairs, SyncTypeOK, RunInv, Faultless,
           \/ read_cache \/ ThresholdsPass \/ ForceOptions
           \/ \E r \in Runs : StartRun(r)
    PROVE  Faultless'
<1>1. /\ UNCHANGED <<server, late, cacheFile, scim_new_cache, handled, swept, doubt, new_doubt,
                     failures>>
      /\ pc \in BeforeRequests
  BY DEF read_cache, ThresholdsPass, ForceOptions, StartRun, senderVars, history, BeforeRequests
<1>2. \A v : OnServer(v)' <=> OnServer(v)
  BY <1>1 DEF OnServer, Holds
<1>3. handled = {} /\ swept = {}
  BY <1>1 DEF RunInv, AccuracyInv, QuietAtFirst
<1>4. \A u \in Uid : ~Dealt(u)
  BY <1>3 DEF Dealt, Swept
<1>5. \A u \in Uid : pc' \notin {"idle", "read_cache"} /\ cached'[u] # Absent =>
         cacheFile[u] # Absent \/ (pc \notin {"idle", "read_cache"} /\ cached[u] # Absent)
  BY DEF read_cache, ThresholdsPass, ForceOptions, StartRun, RemoveObjects, MakeDirty
<1>6. ListsOnServer'
  BY <1>1, <1>2, <1>4, <1>5 DEF Faultless, ListsOnServer
<1>7. ~aborted'
  BY DEF Faultless, read_cache, ThresholdsPass, ForceOptions, StartRun, send_init, senderVars
<1>8. ServerFromSource' /\ NothingDangles'
  BY <1>1 DEF Faultless, ServerFromSource, NothingDangles, OnServer, Holds
<1> QED
  BY <1>1, <1>6, <1>7, <1>8 DEF Faultless

LEMMA FaultlessTurns ==
    ASSUME SyncTypeOK, Faultless, faults' = 0,
           RenderAndPreallocate \/ ChangesDone \/ DeletesDone
    PROVE  Faultless'
<1>1. /\ UNCHANGED <<server, late, aborted, cacheFile, cached, scim_new_cache, handled, swept,
                     doubt, new_doubt>>
      /\ pc \notin {"idle", "read_cache"} /\ pc' \notin BeforeRequests
  BY DEF RenderAndPreallocate, ChangesDone, DeletesDone, senderVars, history, BeforeRequests
<1>2. UNCHANGED failures
  BY DEF RenderAndPreallocate, ChangesDone, DeletesDone, Fault, history, SyncTypeOK, SenderTypeOK
<1>3. ListsOnServer'
  BY <1>1 DEF Faultless, ListsOnServer, OnServer, Holds, Dealt, Swept
<1> QED
  BY <1>1, <1>2, <1>3, FaultlessLists DEF Faultless

\* A run ends by itself before any request, or with a new cache file.
LEMMA FaultlessEnd ==
    ASSUME SyncTypeOK, RunInv, Faultless, ThresholdsStop \/ CacheTruncated \/ FinalizeCacheFile
    PROVE  Faultless'
<1>1. UNCHANGED <<server, late, aborted>> /\ EndRun
  BY DEF ThresholdsStop, CacheTruncated, FinalizeCacheFile, EndRunUnsaved, senderVars
<1>2. doubt' = {} /\ new_doubt' = {}
  <2>1. CASE FinalizeCacheFile
    BY <2>1 DEF FinalizeCacheFile, Faultless
  <2>2. CASE ThresholdsStop \/ CacheTruncated
    <3>1. touched = {}
      BY <2>2 DEF ThresholdsStop, CacheTruncated, RunInv, AccuracyInv, QuietAtFirst, BeforeRequests
    <3> QED
      BY <2>2, <3>1 DEF ThresholdsStop, CacheTruncated, EndRunUnsaved, Faultless
  <2> QED
    BY <2>1, <2>2
<1>3. \A u \in Uid : cacheFile'[u] # Absent => OnServer(u)
  BY DEF ThresholdsStop, CacheTruncated, FinalizeCacheFile, EndRunUnsaved, Faultless,
         ListsOnServer, BeforeRequests
<1>4. ListsOnServer'
  BY <1>1, <1>3 DEF EndRun, EmptyList, ListsOnServer, OnServer, Holds
<1>5. UNCHANGED failures
  BY <1>1 DEF EndRun, Faultless, SyncTypeOK
<1> QED
  BY <1>1, <1>2, <1>4, <1>5, FaultlessLists

-----------------------------------------------------------------------------
LEMMA FaultlessInit == SyncInit => FaultlessInv
<1> SUFFICES ASSUME SyncInit PROVE FaultlessInv
  OBVIOUS
<1>1. \A e \in Endpoint, u \in Uid : ~Holds(e, u)
  BY DEF SyncInit, SenderInit, Holds
<1>2. ServerFromSource /\ NothingDangles
  BY <1>1 DEF ServerFromSource, NothingDangles
<1>3. ListsOnServer
  BY DEF SyncInit, EmptyList, ListsOnServer
<1> QED
  BY <1>2, <1>3 DEF SyncInit, SenderInit, FaultlessInv, Faultless

LEMMA LoadedFromSource ==
    ASSUME SyncTypeOK, FaultlessInv, [SyncNext]_vars
    PROVE  current' = EmptyList \/ current' \in SourceStates
<1>1. \/ current' = current
      \/ current' = EmptyList
      \/ current' = source
  BY UnsavedEnds
     DEF SyncNext, StartRun, RunStep, WorldStep, RunFails, read_cache, ThresholdsPass,
         QueryEndpoint, ForceOptions, RenderAndPreallocate, CopyObject, SkipUnrendered,
         CreateObject, UpdateObject, ChangesDone, DeleteObject, DeleteStray, DeletesDone,
         FinalizeCacheFile, ChangeFrame, DeleteFrame, EndRunUnsaved, EndRun, LoadFails,
         SourceChanges, LateRequestArrives, LateRequestIsLost, OthersChangeServer,
         CacheFileHarmed, runVars, vars
<1> QED
  BY <1>1 DEF FaultlessInv, SyncTypeOK

LEMMA FaultlessNext ==
    ASSUME TypesFixed, AllTypesSent, NoRepairs, ReferencesInOrder, SyncTypeOK, RunInv,
           CompletenessInv, FaultlessInv, [SyncNext]_vars
    PROVE  FaultlessInv'
<1> SUFFICES ASSUME faults' = 0 PROVE Faultless'
  BY LoadedFromSource DEF FaultlessInv
<1>1. CASE RunStep
  <2>1. faults = 0
    <3>1. ASSUME NEW u \in Uid, NEW out \in Outcome,
                 \/ CreateObject(u, out) \/ UpdateObject(u, out) \/ DeleteObject(u, out)
                 \/ \E e \in Endpoint : DeleteStray(e, u, out)
          PROVE  faults' = faults \/ faults' = faults + 1
      BY <3>1, SendCounts DEF CreateObject, UpdateObject, DeleteObject, DeleteStray
    <3>2. CacheTruncated \/ ThresholdsStop \/ FinalizeCacheFile => faults' = faults
      BY DEF CacheTruncated, ThresholdsStop, FinalizeCacheFile, senderVars
    <3>3. RenderAndPreallocate => faults' = faults \/ faults' = faults + 1
      BY DEF RenderAndPreallocate, Fault
    <3>4. (\E u \in Uid : CopyObject(u) \/ SkipUnrendered(u)) => faults' = faults
      BY DEF CopyObject, SkipUnrendered, senderVars
    <3>5. (\E e \in Endpoint : QueryEndpoint(e)) => faults' = faults
      BY DEF QueryEndpoint, senderVars
    <3>6. read_cache \/ ThresholdsPass \/ ForceOptions \/ ChangesDone \/ DeletesDone =>
             faults' = faults
      BY DEF read_cache, ThresholdsPass, ForceOptions, ChangesDone, DeletesDone, senderVars
    <3>7. faults' = faults \/ faults' = faults + 1
      BY <1>1, <3>1, <3>2, <3>3, <3>4, <3>5, <3>6 DEF RunStep
    <3> QED
      BY <3>7 DEF SyncTypeOK, SenderTypeOK
  <2>2. Faultless
    BY <2>1 DEF FaultlessInv
  <2>3. /\ \A e \in Endpoint : ~QueryEndpoint(e)
        /\ \A e \in Endpoint, u \in Uid, out \in Outcome : ~DeleteStray(e, u, out)
    BY PlainRun DEF QueryEndpoint, DeleteStray, Strays, RunInv, AccuracyInv, QuietAtFirst
  <2> QED
    BY <1>1, <2>2, <2>3, FaultlessChange, FaultlessDelete, FaultlessKeep, FaultlessEarly,
       FaultlessTurns, FaultlessEnd DEF RunStep
<1>2. CASE \E r \in Runs : StartRun(r)
  <2>1. Faultless
    BY <1>2 DEF StartRun, FaultlessInv
  <2> QED
    BY <1>2, <2>1, FaultlessEarly
<1>3. CASE SourceChanges \/ UNCHANGED vars
  <2>1. /\ UNCHANGED <<server, late, aborted, cacheFile, runVars, history>>
        /\ faults' = faults
    BY <1>3 DEF SourceChanges, vars, senderVars
  <2>2. Faultless
    BY <2>1 DEF FaultlessInv
  <2>3. ListsOnServer'
    BY <2>1, <2>2 DEF runVars, Faultless, ListsOnServer, OnServer, Holds, Dealt, Swept
  <2> QED
    BY <2>1, <2>2, <2>3, FaultlessLists DEF history, Faultless
<1>4. CASE RunFails
  <2>1. faults' = faults + 1
    BY <1>4 DEF RunFails, LoadFails, CacheUnreadable, QueryFails, PreallocationFails,
          FinalizeFails, SettingMissing, Crash, Fault
  <2> QED
    BY <2>1 DEF SyncTypeOK, SenderTypeOK
<1>5. CASE WorldStep /\ ~SourceChanges
  <2>1. faults' = faults + 1 \/ (faults' = faults /\ late # {})
    BY <1>5 DEF WorldStep, LateRequestArrives, LateArrival, LateRequestIsLost, LateLost,
          OthersChangeServer, ServerChangedByOthers, CacheFileHarmed, Fault
  <2> QED
    BY <2>1 DEF FaultlessInv, Faultless, SyncTypeOK, SenderTypeOK
<1> QED
  BY <1>1, <1>2, <1>3, <1>4, <1>5 DEF SyncNext

\* As long as nothing fails the server only ever has what it was sent from the
\* data source, nothing on it dangles, and the lists of a run hold nothing that
\* it has not (ScimActions::perform).
THEOREM FaultlessInvariant ==
    ASSUME TypesFixed, AllTypesSent, NoRepairs, ReferencesInOrder
    PROVE  SyncSpec => []FaultlessInv
<1>1. RepairsUndisturbed
  BY DEF NoRepairs, RepairsUndisturbed
<1>2. SyncInit => FaultlessInv
  BY FaultlessInit
<1>3. SyncTypeOK /\ RunInv /\ CompletenessInv /\ FaultlessInv /\ [SyncNext]_vars => FaultlessInv'
  BY FaultlessNext
<1> QED
  BY <1>1, <1>2, <1>3, TypeCorrect, RunInvariant, CompletenessInvariant, PTL DEF SyncSpec

\* As long as nothing fails, no object on the server refers to one that is not
\* there, after every single request: process_changes takes the types in send
\* order, process_deletes in the opposite one, and the changes go first.
THEOREM ReferencesAlwaysResolve ==
    ASSUME TypesFixed, AllTypesSent, NoRepairs, ReferencesInOrder
    PROVE  SyncSpec => []ReferencesResolve
<1>1. FaultlessInv => ReferencesResolve
  BY DEF FaultlessInv, Faultless, NothingDangles, ReferencesResolve, OnServer
<1> QED
  BY <1>1, FaultlessInvariant, PTL

-----------------------------------------------------------------------------
\* Thresholds.

LEMMA HandledInit == SyncInit => ThresholdsInv
BY DEF SyncInit, ThresholdsInv, ThresholdsHeld, NewCacheIsHandled, AfterQuery, EmptyList

LEMMA ThresholdsHeldNext ==
    ASSUME SyncTypeOK, ThresholdsHeld, [SyncNext]_vars
    PROVE  ThresholdsHeld'
<1>1. CASE read_cache
  BY <1>1 DEF read_cache, ThresholdsHeld, AfterQuery
<1>2. CASE ThresholdsPass
  BY <1>2 DEF ThresholdsPass, ThresholdsHeld, ThresholdsApply, OrderedTypes
<1>3. CASE pc' \in {"idle", "read_cache"}
  BY <1>3 DEF ThresholdsHeld, AfterQuery
<1>4. CASE ~read_cache /\ ~ThresholdsPass /\ pc' \notin {"idle", "read_cache"}
  <2>1. /\ UNCHANGED <<cacheFile, cacheFileState, run, current>>
        /\ pc' = "thresholds" => pc = "thresholds" /\ cached' = cached
        /\ pc' \in {"query"} \cup AfterQuery => pc \in {"query"} \cup AfterQuery
    <3>1. ~EndRun /\ ~\E r \in Runs : StartRun(r)
      BY <1>4 DEF EndRun, StartRun
    <3>2. CASE RunStep
      BY <1>4, <3>1, <3>2 DEF RunStep, CacheTruncated, ThresholdsStop,
         QueryEndpoint, ForceOptions, RenderAndPreallocate, CopyObject, SkipUnrendered,
         CreateObject, UpdateObject, ChangesDone, DeleteObject, DeleteStray, DeletesDone,
         FinalizeCacheFile, ChangeFrame, DeleteFrame, ChangeIsNext, EndRunUnsaved, AfterQuery
    <3>3. CASE WorldStep
      BY <1>4, <3>3 DEF WorldStep, SourceChanges, LateRequestArrives, LateRequestIsLost,
         OthersChangeServer, CacheFileHarmed, runVars
    <3>4. CASE RunFails
      <4>1. LoadFails
        BY <3>1, <3>4, UnsavedEnds DEF EndRunUnsaved
      <4> QED
        BY <4>1 DEF LoadFails, runVars
    <3>5. CASE UNCHANGED vars
      BY <3>5 DEF vars, runVars
    <3> QED
      BY <3>1, <3>2, <3>3, <3>4, <3>5 DEF SyncNext
  <2> QED
    BY <2>1 DEF ThresholdsHeld, ThresholdsApply, OrderedTypes
<1> QED
  BY <1>1, <1>2, <1>3, <1>4

LEMMA HandledChange ==
    ASSUME SyncTypeOK, AccuracyInv, NewCacheIsHandled, NEW u \in Uid, NEW out \in Outcome,
           CreateObject(u, out) \/ UpdateObject(u, out)
    PROVE  NewCacheIsHandled'
<1> SUFFICES ASSUME ~failures' PROVE NewCacheIsHandled'
  BY DEF NewCacheIsHandled
<1>1. /\ pre_rendered[u] = current[u] /\ current[u] \in SourceObject /\ current[u] # Absent
      /\ UNCHANGED current /\ handled' = handled \cup {u} /\ RecordOutcome(u, out)
  BY ChangeEffect
<1>2. out = "ok" /\ ~failures
  BY <1>1, CleanAnswer
<1>3. current[u] \in RenderedObject
  BY <1>1, SourceObjectIsRendered
<1>4. scim_new_cache' = AddObject(scim_new_cache, u, current[u])
  BY <1>1, <1>2 DEF CreateObject, UpdateObject, AfterCreate, AfterUpdate
<1>5. \A v \in Uid : scim_new_cache'[v] = IF v = u THEN current[u] ELSE scim_new_cache[v]
  BY <1>1, <1>3, <1>4, AddObjectTypes DEF SyncTypeOK
<1> QED
  BY <1>1, <1>2, <1>5 DEF NewCacheIsHandled

LEMMA HandledDelete ==
    ASSUME TypesFixed, SyncTypeOK, AccuracyInv, NewCacheIsHandled, NEW u \in Uid,
           NEW out \in Outcome,
           DeleteObject(u, out) \/ \E e \in Endpoint : DeleteStray(e, u, out)
    PROVE  NewCacheIsHandled'
<1> SUFFICES ASSUME ~failures' PROVE NewCacheIsHandled'
  BY DEF NewCacheIsHandled
<1>1. UNCHANGED <<current, handled>> /\ RecordOutcome(u, out)
  BY DEF DeleteObject, DeleteStray, DeleteFrame
<1>2. out = "ok" /\ ~failures
  BY <1>1, CleanAnswer
<1>3. scim_new_cache' = scim_new_cache
  BY <1>2 DEF DeleteObject, DeleteStray, AfterDelete, AddObject
<1> QED
  BY <1>1, <1>2, <1>3 DEF NewCacheIsHandled

LEMMA HandledKeep ==
    ASSUME SyncTypeOK, AccuracyInv, PhaseInv, NewCacheIsHandled, NEW u \in Uid,
           CopyObject(u) \/ SkipUnrendered(u)
    PROVE  NewCacheIsHandled'
<1>1. /\ UNCHANGED <<current, failures>> /\ pc = "changes" /\ IsSent(u)
      /\ handled' = handled \cup {u}
  BY DEF CopyObject, SkipUnrendered, ChangeFrame, ChangeIsNext, ToChange, history
<1> SUFFICES ASSUME ~failures PROVE NewCacheIsHandled'
  BY <1>1 DEF NewCacheIsHandled
<1>2. pre_rendered[u] = current[u] /\ Rendered(u) /\ current[u] # Absent
  BY <1>1 DEF PhaseInv, PhasesDone, IsSent, IsCurrent, Rendered
<1>3. cached[u] = current[u] /\ scim_new_cache' = AddObject(scim_new_cache, u, cached[u])
  BY <1>2 DEF CopyObject, SkipUnrendered, IsCopy
<1>4. \A v \in Uid : scim_new_cache'[v] = IF v = u THEN current[u] ELSE scim_new_cache[v]
  <2>1. cached[u] \in RenderedObject
    BY <1>2, <1>3 DEF SyncTypeOK, ObjectList
  <2> QED
    BY <1>2, <1>3, <2>1, AddObjectTypes DEF SyncTypeOK
<1> QED
  BY <1>1, <1>2, <1>4 DEF NewCacheIsHandled

LEMMA HandledNext ==
    ASSUME TypesFixed, SyncTypeOK, AccuracyInv, PhaseInv, NewCacheIsHandled, [SyncNext]_vars
    PROVE  NewCacheIsHandled'
<1>1. CASE EndRun
  BY <1>1 DEF EndRun, EmptyList, NewCacheIsHandled
<1>2. CASE ThresholdsStop \/ CacheTruncated \/ (RunFails /\ ~LoadFails)
  BY <1>1, <1>2, UnsavedEnds DEF EndRunUnsaved
<1>3. CASE \/ SourceChanges \/ LoadFails \/ (\E req \in late : LateRequestIsLost(req))
           \/ UNCHANGED vars
  <2>1. UNCHANGED <<runVars, history>>
    BY <1>3, IdleSteps
  <2> QED
    BY <2>1 DEF runVars, history, NewCacheIsHandled
<1>4. CASE RunStep
  <2>1. ASSUME \/ read_cache \/ ThresholdsPass \/ ForceOptions
               \/ \E e \in Endpoint : QueryEndpoint(e)
        PROVE  NewCacheIsHandled'
    BY <2>1 DEF read_cache, ThresholdsPass, ForceOptions, QueryEndpoint, history,
                NewCacheIsHandled
  <2>2. ASSUME RenderAndPreallocate \/ ChangesDone \/ DeletesDone
        PROVE  NewCacheIsHandled'
    <3>1. UNCHANGED <<current, handled, scim_new_cache>> /\ (~failures' => ~failures)
      BY <2>2 DEF RenderAndPreallocate, ChangesDone, DeletesDone, history
    <3> QED
      BY <3>1 DEF NewCacheIsHandled
  <2> QED
    BY <1>1, <1>2, <1>4, <2>1, <2>2, HandledKeep, HandledChange, HandledDelete
       DEF RunStep, FinalizeCacheFile
<1>5. ASSUME NEW r \in Runs, StartRun(r)
      PROVE  NewCacheIsHandled'
  BY <1>5 DEF StartRun, AccuracyInv, QuietAtFirst, BeforeRequests, EmptyList, NewCacheIsHandled
<1>6. CASE WorldStep /\ ~SourceChanges /\ ~\E req \in late : LateRequestIsLost(req)
  <2>1. UNCHANGED runVars
    BY <1>6 DEF WorldStep, LateRequestArrives, OthersChangeServer, CacheFileHarmed
  <2>2. ~failures' => ~failures
    <3>1. failures' = failures \/ (failures' = (failures \/ pc # "idle"))
      BY <1>6 DEF WorldStep, LateRequestArrives, OthersChangeServer, CacheFileHarmed, AddDoubt
    <3> QED
      BY <3>1
  <2> QED
    BY <2>1, <2>2 DEF runVars, NewCacheIsHandled
<1> QED
  BY <1>2, <1>3, <1>4, <1>5, <1>6 DEF SyncNext, RunFails, WorldStep

\* Whenever a run sends anything, the thresholds were applied to the very objects
\* it sends and the very cache file it is going to replace, and the new cache has
\* what it has handled.
THEOREM ThresholdsInvariant ==
    ASSUME TypesFixed
    PROVE  SyncSpec => []ThresholdsInv
<1>1. SyncTypeOK /\ RunInv /\ ThresholdsInv /\ [SyncNext]_vars => ThresholdsInv'
  BY HandledNext, ThresholdsHeldNext DEF RunInv, ThresholdsInv
<1> QED
  BY <1>1, HandledInit, TypeCorrect, RunInvariant, PTL DEF SyncSpec

\* A threshold that does not stop a run bounds the difference.
LEMMA ThresholdBounds ==
    ASSUME NEW old \in Nat, NEW new \in Nat, NEW limit \in Int \cup {NoThreshold},
           NEW share \in Int \cup {NoThreshold},
           verify_thresholds_for_type(old, new, limit, share)
    PROVE  /\ limit # NoThreshold => old - new <= limit /\ new - old <= limit
           /\ share # NoThreshold => /\ 100 * (old - new) <= share * old
                                     /\ 100 * (new - old) <= share * old
<1> DEFINE diff == IF old > new THEN old - new ELSE new - old
<1>1. diff \in Nat /\ old - new <= diff /\ new - old <= diff
  OBVIOUS
<1>2. limit # NoThreshold => diff <= limit
  BY DEF verify_thresholds_for_type
<1>3. ASSUME share # NoThreshold
      PROVE  100 * diff <= share * old
  <2>1. ~ExceedsRelative(diff, share, old)
    BY <1>3 DEF verify_thresholds_for_type
  <2>2. share * old \in Int
    BY <1>3
  <2> HIDE DEF diff
  <2> QED
    BY <1>1, <2>1, <2>2 DEF ExceedsRelative
<1> HIDE DEF diff
<1>4. share # NoThreshold => share * old \in Int
  OBVIOUS
<1> QED
  BY <1>1, <1>2, <1>3, <1>4

\* Thresholds do what they are for (verify_thresholds, which compares numbers of
\* loaded and cached objects before anything is sent): in a run in which nothing
\* went wrong, the numbers of objects in the old and the new cache file differ by
\* no more than they allow.
THEOREM ThresholdsBoundChanges ==
    ASSUME TypesFixed, AllTypesSent, IsFiniteSet(Uid)
    PROVE  SyncSpec => ThresholdBoundsChange
<1> DEFINE Bounded ==
       \A t \in OrderedTypes :
          LET limit == get_threshold(absolute_threshold, t)
              share == get_threshold(relative_threshold, t)
              old == Count(cacheFile, t)
              new == Count(cacheFile', t)
          IN  /\ limit # NoThreshold => old - new <= limit /\ new - old <= limit
              /\ share # NoThreshold => /\ 100 * (old - new) <= share * old
                                        /\ 100 * (new - old) <= share * old
<1>1. SyncTypeOK /\ RunInv /\ ThresholdsInv =>
         [FinalizeCacheFile /\ ~failures /\ ThresholdsApply => Bounded]_vars
  <2> SUFFICES ASSUME SyncTypeOK, RunInv, ThresholdsInv, FinalizeCacheFile, ~failures,
                      ThresholdsApply
               PROVE  Bounded
    OBVIOUS
  <2> SUFFICES ASSUME NEW t \in OrderedTypes
               PROVE  LET limit == get_threshold(absolute_threshold, t)
                          share == get_threshold(relative_threshold, t)
                          old == Count(cacheFile, t)
                          new == Count(cacheFile', t)
                      IN  /\ limit # NoThreshold => old - new <= limit /\ new - old <= limit
                          /\ share # NoThreshold => /\ 100 * (old - new) <= share * old
                                                    /\ 100 * (new - old) <= share * old
    OBVIOUS
  <2>1. pc = "finalize" /\ cacheFile' = scim_new_cache
    BY DEF FinalizeCacheFile
  <2>2. \A u \in Uid : u \in handled <=> IsCurrent(u)
    <3>1. \A u \in Uid : IsCurrent(u) => IsSent(u)
      BY SourceTypesAreSent DEF IsCurrent, IsSent, RunInv, AccuracyInv, ListsTyped
    <3> QED
      BY <2>1, <3>1 DEF RunInv, AccuracyInv, PassRecords, PhaseInv, PhasesDone, ToChange
  <2>3. {u \in Uid : scim_new_cache[u] # Absent /\ scim_new_cache[u].type = t}
           = {u \in Uid : current[u] # Absent /\ current[u].type = t}
    BY <2>2 DEF ThresholdsInv, NewCacheIsHandled, IsCurrent
  <2>4. /\ Count(cacheFile', t) = count_objects_of_type(current, t)
        /\ Count(cacheFile, t) = count_objects_of_type(cacheFile, t)
    <3>1. DOMAIN current = Uid /\ DOMAIN cacheFile = Uid
      BY DEF SyncTypeOK, ObjectList
    <3> QED
      BY <2>1, <2>3, <3>1 DEF Count, count_objects_of_type
  <2>5. Count(cacheFile', t) \in Nat /\ Count(cacheFile, t) \in Nat
    BY FS_Subset, FS_CardinalityType DEF Count
  <2>6. verify_thresholds(cacheFile, current, OrderedTypes)
    BY <2>1 DEF ThresholdsInv, ThresholdsHeld, AfterQuery
  <2>7. verify_thresholds_for_type(Count(cacheFile, t), Count(cacheFile', t),
                                   get_threshold(absolute_threshold, t),
                                   get_threshold(relative_threshold, t))
    BY <2>4, <2>6 DEF verify_thresholds
  <2>8. /\ get_threshold(absolute_threshold, t) \in Int \cup {NoThreshold}
        /\ get_threshold(relative_threshold, t) \in Int \cup {NoThreshold}
    BY ThresholdsAssumption DEF get_threshold, OrderedTypes
  <2> QED
    BY <2>5, <2>7, <2>8, ThresholdBounds
<1> QED
  BY <1>1, TypeCorrect, RunInvariant, ThresholdsInvariant, PTL DEF ThresholdBoundsChange
=============================================================================
