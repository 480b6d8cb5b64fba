---------------------------- MODULE ScimSyncProofs ----------------------------
(***************************************************************************)
(* Theorems about ScimSync, for every value of the constants: the types of *)
(* all variables; that the cache file tells the truth, as AccuracyInv is   *)
(* inductive as long as every id keeps its type; and that every step of    *)
(* the client is one that Mirror allows.                                   *)
(***************************************************************************)
EXTENDS ScimMirror, TLAPS

USE DEF SourceObject

-----------------------------------------------------------------------------
\* Lemmas about the operators.

\* What Send does to the sender's variables, whatever the outcome.
LEMMA SendTypes ==
    ASSUME SenderTypeOK, NEW req \in Request, NEW out \in Outcome, Send(req, out)
    PROVE  SenderTypeOK'
<1> USE SenderAssumption
<1>1. server' \in [Endpoint -> [Uid -> Json \cup {Absent}]]
  <2>1. CASE server' = server
    BY <2>1 DEF SenderTypeOK
  <2>2. CASE server' = Handled(req) /\ Respond(req) = "ok"
    <3>1. req.endpoint \in Endpoint /\ req.uid \in Uid /\ req.json \in Json \cup {Absent}
      BY DEF Request
    <3>2. server[req.endpoint] \in [Uid -> Json \cup {Absent}]
      BY <3>1 DEF SenderTypeOK
    <3> QED
      BY <2>2, <3>1, <3>2 DEF SenderTypeOK, Handled
  <2> QED
    BY <2>1, <2>2 DEF Send, CurlFails, senderVars, Handled
<1>2. late' \in SUBSET Request
  BY DEF SenderTypeOK, Send, CurlFails, senderVars
<1>3. number_of_timeouts' \in Nat /\ faults' \in Nat
  BY DEF SenderTypeOK, Send, CurlFails, senderVars, register_timeout, Fault
<1>4. aborted' \in BOOLEAN
  <2>1. aborted \in BOOLEAN
    BY DEF SenderTypeOK
  <2>2. \/ aborted' = aborted
        \/ aborted' = TRUE
        \/ aborted' = (aborted \/ number_of_timeouts + 1 > http_max_acceptable_timeouts)
    BY Zenon DEF Send, CurlFails, senderVars, register_timeout
  <2> QED
    BY <2>1, <2>2, Zenon
<1> QED
  BY <1>1, <1>2, <1>3, <1>4 DEF SenderTypeOK

\* Send touches the server only at the request's endpoint and id, and only when
\* the server answers "ok".
LEMMA SendEffect ==
    ASSUME SenderTypeOK, NEW req \in Request, NEW out \in Outcome, Send(req, out),
           NEW e \in Endpoint, NEW u \in Uid
    PROVE  /\ out = "ok" /\ e = req.endpoint /\ u = req.uid =>
                  server'[e][u] = IF req.op = "DELETE" THEN Absent ELSE req.json
           /\ out # "ok" => server' = server
           /\ out = "conflict" => req.op = "POST"
           /\ e # req.endpoint \/ u # req.uid => server'[e][u] = server[e][u]
<1>1. req.endpoint \in Endpoint /\ req.uid \in Uid
  BY DEF Request
<1>2. server \in [Endpoint -> [Uid -> Json \cup {Absent}]]
  BY DEF SenderTypeOK
<1>3. \/ server' = server /\ out # "ok"
      \/ server' = Handled(req) /\ out = Respond(req)
  BY DEF Send, CurlFails, senderVars, Respond
<1>4. out = "conflict" => req.op = "POST"
  BY DEF Send, CurlFails, Respond
<1>5. CASE server' = server /\ out # "ok"
  BY <1>4, <1>5
<1>6. CASE server' = Handled(req) /\ out = Respond(req)
  <2>1. out # "ok" => server' = server
    BY <1>6 DEF Handled
  <2>2. CASE out = "ok"
    BY <1>1, <1>2, <1>4, <1>6, <2>2 DEF Handled
  <2> QED
    BY <1>4, <2>1, <2>2
<1> QED
  BY <1>3, <1>5, <1>6

LEMMA AddObjectTypes ==
    ASSUME NEW list \in ObjectList, NEW u \in Uid,
           NEW obj \in RenderedObject \cup {Absent}
    PROVE  /\ AddObject(list, u, obj) \in ObjectList
           /\ \A v \in Uid : AddObject(list, u, obj)[v] =
                  IF v = u /\ obj # Absent THEN obj ELSE list[v]
BY DEF AddObject, ObjectList

LEMMA AfterTypes ==
    ASSUME NEW obj \in RenderedObject, NEW out \in Outcome
    PROVE  /\ DummyObject(obj) \in RenderedObject
           /\ DummyObject(obj).type = obj.type
           /\ DummyObject(obj).json = DummyJson
           /\ AfterCreate(obj, out) \in {obj, DummyObject(obj), Absent}
           /\ AfterUpdate(obj, out) \in {obj, DummyObject(obj), Absent}
           /\ AfterDelete(obj, out) \in {obj, Absent}
BY DEF RenderedObject, DummyObject, AfterCreate, AfterUpdate, AfterDelete

LEMMA EmptyListType == EmptyList \in ObjectList /\ EmptyList \in [Uid -> SourceObject \cup {Absent}]
BY DEF EmptyList, ObjectList

LEMMA SourceObjectIsRendered ==
    /\ SourceObject \subseteq RenderedObject
    /\ Absent \notin SourceObject
BY RenderedAssumption DEF RenderedObject

\* The requests the program makes are requests.
LEMMA RequestTypes ==
    ASSUME NEW e \in Endpoint, NEW u \in Uid, NEW j \in Json
    PROVE  /\ [op |-> "POST", endpoint |-> e, uid |-> u, json |-> j] \in Request
           /\ [op |-> "PUT", endpoint |-> e, uid |-> u, json |-> j] \in Request
           /\ [op |-> "DELETE", endpoint |-> e, uid |-> u, json |-> Absent] \in Request
BY DEF Request

LEMMA NoRunType == NoRun \in Runs
BY SyncAssumption DEF NoRun

\* Facts about a request's history that the type invariant needs.
LEMMA RecordTypes ==
    ASSUME SyncTypeOK, NEW u \in Uid, NEW out \in Outcome, RecordOutcome(u, out)
    PROVE  /\ touched' \subseteq Uid /\ new_doubt' \subseteq Uid
           /\ doubt' \subseteq Uid /\ failures' \in BOOLEAN
BY DEF SyncTypeOK, RecordOutcome

LEMMA AddDoubtTypes ==
    ASSUME SyncTypeOK, NEW u \in Uid, AddDoubt(u)
    PROVE  /\ doubt' \subseteq Uid /\ new_doubt' \subseteq Uid
           /\ touched' \subseteq Uid /\ failures' \in BOOLEAN
<1>1. failures' = (failures \/ pc # "idle")
  BY DEF AddDoubt
<1>2. failures' \in BOOLEAN
  BY <1>1, Zenon
<1> QED
  BY <1>2 DEF AddDoubt, SyncTypeOK

-----------------------------------------------------------------------------
\* Type correctness.

LEMMA TypeInit == SyncInit => SyncTypeOK
<1> SUFFICES ASSUME SyncInit PROVE SyncTypeOK
  OBVIOUS
<1>1. SenderTypeOK
  BY DEF SyncInit, SenderInit, SenderTypeOK
<1> QED
  BY <1>1, EmptyListType, NoRunType DEF SyncInit, SyncTypeOK

LEMMA TypeWorld ==
    ASSUME SyncTypeOK, WorldStep
    PROVE  SyncTypeOK'
<1>1. CASE SourceChanges
  BY <1>1 DEF SourceChanges, SyncTypeOK, SenderTypeOK, senderVars, runVars, history
<1>2. ASSUME NEW req \in late, LateRequestArrives(req)
      PROVE  SyncTypeOK'
  <2>1. req \in Request /\ req.uid \in Uid /\ req.endpoint \in Endpoint
        /\ req.json \in Json \cup {Absent}
    BY <1>2 DEF SyncTypeOK, SenderTypeOK, Request
  <2>2. server' \in [Endpoint -> [Uid -> Json \cup {Absent}]]
    <3>1. server[req.endpoint] \in [Uid -> Json \cup {Absent}]
      BY <2>1 DEF SyncTypeOK, SenderTypeOK
    <3> QED
      BY <1>2, <2>1, <3>1 DEF LateRequestArrives, LateArrival, Handled, SyncTypeOK, SenderTypeOK
  <2> QED
    BY <1>2, <2>1, <2>2, AddDoubtTypes DEF LateRequestArrives, LateArrival, SyncTypeOK,
       SenderTypeOK, runVars
<1>3. ASSUME NEW req \in late, LateRequestIsLost(req)
      PROVE  SyncTypeOK'
  BY <1>3 DEF LateRequestIsLost, LateLost, SyncTypeOK, SenderTypeOK, runVars, history
<1>4. ASSUME NEW u \in Uid, OthersChangeServer(u)
      PROVE  SyncTypeOK'
  <2>1. PICK e \in HomesOf(u) : ServerChangedByOthers(e, u)
    BY <1>4 DEF OthersChangeServer
  <2>2. e \in Endpoint
    BY SyncAssumption DEF HomesOf
  <2>3. SenderTypeOK'
    <3>1. server[e] \in [Uid -> Json \cup {Absent}]
      BY <2>2 DEF SyncTypeOK, SenderTypeOK
    <3> QED
      BY <2>1, <2>2, <3>1, SenderAssumption
         DEF ServerChangedByOthers, Fault, SyncTypeOK, SenderTypeOK
  <2> QED
    BY <1>4, <2>3, AddDoubtTypes DEF OthersChangeServer, SyncTypeOK, runVars
<1>5. ASSUME NEW kind \in {"lost"} \cup Damage, CacheFileHarmed(kind)
      PROVE  SyncTypeOK'
  BY <1>5, EmptyListType DEF CacheFileHarmed, Fault, Damage, SyncTypeOK, SenderTypeOK, runVars
<1> QED
  BY <1>1, <1>2, <1>3, <1>4, <1>5 DEF WorldStep

LEMMA TypeEndUnsaved ==
    ASSUME SyncTypeOK, EndRunUnsaved, SenderTypeOK', statusFile' \in ObjectList
    PROVE  SyncTypeOK'
BY EmptyListType, NoRunType DEF EndRunUnsaved, EndRun, SyncTypeOK

LEMMA TypeFails ==
    ASSUME SyncTypeOK, RunFails
    PROVE  SyncTypeOK'
<1>1. SenderTypeOK'
  BY DEF RunFails, LoadFails, CacheUnreadable, QueryFails, PreallocationFails, FinalizeFails,
         SettingMissing, Crash, Fault, SyncTypeOK, SenderTypeOK
<1>2. statusFile' \in ObjectList
  BY EmptyListType
     DEF RunFails, LoadFails, CacheUnreadable, QueryFails, PreallocationFails, FinalizeFails,
         SettingMissing, Crash, SyncTypeOK
<1>3. CASE LoadFails
  BY <1>1, <1>2, <1>3 DEF LoadFails, SyncTypeOK, runVars, history
<1>4. CASE ~LoadFails
  BY <1>1, <1>2, <1>4, TypeEndUnsaved
     DEF RunFails, CacheUnreadable, QueryFails, PreallocationFails, FinalizeFails,
         SettingMissing, Crash
<1> QED
  BY <1>3, <1>4

LEMMA TypeRequest ==
    ASSUME SyncTypeOK, NEW u \in Uid, NEW out \in Outcome,
           CreateObject(u, out) \/ UpdateObject(u, out) \/ DeleteObject(u, out)
              \/ \E e \in Endpoint : DeleteStray(e, u, out)
    PROVE  SyncTypeOK'
<1>1. CASE CreateObject(u, out) \/ UpdateObject(u, out)
  <2> DEFINE obj == pre_rendered[u]
  <2>1. obj \in SourceObject /\ obj \in RenderedObject
    BY <1>1, SourceObjectIsRendered DEF CreateObject, UpdateObject, Rendered, SyncTypeOK
  <2>2. EndpointOf[obj.type] \in Endpoint /\ obj.json \in Json
    BY <2>1, SyncAssumption
  <2>3. SenderTypeOK'
    BY <1>1, <2>2, RequestTypes, SendTypes DEF CreateObject, UpdateObject, SyncTypeOK
  <2>4. scim_new_cache' \in ObjectList
    <3>1. AfterCreate(obj, out) \in RenderedObject \cup {Absent}
          /\ AfterUpdate(obj, out) \in RenderedObject \cup {Absent}
      BY <2>1, AfterTypes
    <3> HIDE DEF obj
    <3>2. \/ scim_new_cache' = AddObject(scim_new_cache, u, AfterCreate(obj, out))
          \/ scim_new_cache' = AddObject(scim_new_cache, u, AfterUpdate(obj, out))
      BY <1>1 DEF CreateObject, UpdateObject, obj
    <3> QED
      BY <3>1, <3>2, AddObjectTypes DEF SyncTypeOK
  <2>5. RecordOutcome(u, out) /\ ChangeFrame /\ handled' = handled \cup {u}
    BY <1>1 DEF CreateObject, UpdateObject
  <2> QED
    BY <2>3, <2>4, <2>5, RecordTypes DEF ChangeFrame, SyncTypeOK
<1>2. CASE DeleteObject(u, out)
  <2> DEFINE obj == cached[u]
  <2>1. obj \in RenderedObject
    BY <1>2 DEF DeleteObject, Obsolete, IsObsolete, SyncTypeOK, ObjectList
  <2>2. EndpointOf[obj.type] \in Endpoint
    BY <2>1, SyncAssumption DEF RenderedObject
  <2>3. SenderTypeOK'
    <3>1. [op |-> "DELETE", endpoint |-> EndpointOf[obj.type], uid |-> u,
           json |-> Absent] \in Request
      BY <2>2 DEF Request
    <3> QED
      BY <1>2, <3>1, SendTypes DEF DeleteObject, SyncTypeOK
  <2>4. scim_new_cache' \in ObjectList
    <3>1. AfterDelete(obj, out) \in RenderedObject \cup {Absent}
      BY <2>1, AfterTypes
    <3> QED
      BY <1>2, <3>1, AddObjectTypes DEF DeleteObject, SyncTypeOK
  <2>5. RecordOutcome(u, out) /\ DeleteFrame /\ swept' \subseteq Endpoint \X Uid
    BY <1>2, <2>2 DEF DeleteObject, SyncTypeOK
  <2> QED
    BY <2>3, <2>4, <2>5, RecordTypes DEF DeleteFrame, SyncTypeOK
<1>3. ASSUME NEW e \in Endpoint, DeleteStray(e, u, out)
      PROVE  SyncTypeOK'
  <2>1. SenderTypeOK'
    <3>1. [op |-> "DELETE", endpoint |-> e, uid |-> u, json |-> Absent] \in Request
      BY DEF Request
    <3> QED
      BY <1>3, <3>1, SendTypes DEF DeleteStray, SyncTypeOK
  <2>2. RecordOutcome(u, out) /\ DeleteFrame /\ swept' \subseteq Endpoint \X Uid
        /\ UNCHANGED scim_new_cache
    BY <1>3 DEF DeleteStray, SyncTypeOK
  <2> QED
    BY <2>1, <2>2, RecordTypes DEF DeleteFrame, SyncTypeOK
<1> QED
  BY <1>1, <1>2, <1>3

LEMMA TypeStep ==
    ASSUME SyncTypeOK, RunStep
    PROVE  SyncTypeOK'
<1>1. CASE read_cache
  BY <1>1 DEF read_cache, SyncTypeOK, SenderTypeOK, senderVars, history
<1>2. CASE ThresholdsPass
  BY <1>2 DEF ThresholdsPass, SyncTypeOK, SenderTypeOK, senderVars, history
<1>3. CASE ThresholdsStop
  BY <1>3, TypeEndUnsaved DEF ThresholdsStop, SyncTypeOK, SenderTypeOK, senderVars
<1>11. CASE CacheTruncated
  BY <1>11, TypeEndUnsaved, EmptyListType DEF CacheTruncated, SyncTypeOK, SenderTypeOK, senderVars
<1>4. ASSUME NEW e \in Endpoint, QueryEndpoint(e)
      PROVE  SyncTypeOK'
  BY <1>4 DEF QueryEndpoint, SyncTypeOK, SenderTypeOK, senderVars
<1>5. CASE ForceOptions
  <2>1. MakeDirty(cached, run.force_update) \in ObjectList
    BY DEF MakeDirty, DummyObject, SyncTypeOK, ObjectList, RenderedObject
  <2>2. cached' \in ObjectList
    BY <1>5, <2>1 DEF ForceOptions, RemoveObjects, ObjectList
  <2> QED
    BY <1>5, <2>2 DEF ForceOptions, SyncTypeOK, SenderTypeOK, senderVars, history
<1>6. CASE RenderAndPreallocate
  <2>1. pre_rendered' \in [Uid -> SourceObject \cup {Absent}]
    BY <1>6 DEF RenderAndPreallocate, SyncTypeOK
  <2>2. faults' \in Nat
    BY <1>6 DEF RenderAndPreallocate, Fault, SyncTypeOK, SenderTypeOK
  <2> QED
    BY <1>6, <2>1, <2>2 DEF RenderAndPreallocate, SyncTypeOK, SenderTypeOK
<1>7. ASSUME NEW u \in Uid, CopyObject(u)
      PROVE  SyncTypeOK'
  <2>1. scim_new_cache' \in ObjectList
    BY <1>7, AddObjectTypes DEF CopyObject, SyncTypeOK, ObjectList
  <2> QED
    BY <1>7, <2>1 DEF CopyObject, ChangeFrame, SyncTypeOK, SenderTypeOK, senderVars, history
<1>8. ASSUME NEW u \in Uid, SkipUnrendered(u)
      PROVE  SyncTypeOK'
  BY <1>8 DEF SkipUnrendered, ChangeFrame, SyncTypeOK, SenderTypeOK, senderVars, history
<1>9. CASE ChangesDone \/ DeletesDone
  BY <1>9 DEF ChangesDone, DeletesDone, SyncTypeOK, SenderTypeOK, senderVars, history
<1>10. CASE FinalizeCacheFile
  BY <1>10, EmptyListType, NoRunType
     DEF FinalizeCacheFile, EndRun, SyncTypeOK, SenderTypeOK, senderVars
<1> QED
  BY <1>1, <1>2, <1>3, <1>4, <1>5, <1>6, <1>7, <1>8, <1>9, <1>10, <1>11, TypeRequest DEF RunStep

LEMMA TypeStart ==
    ASSUME SyncTypeOK, NEW r \in Runs, StartRun(r)
    PROVE  SyncTypeOK'
<1>1. current' \in [Uid -> SourceObject \cup {Absent}]
  BY EmptyListType, SyncAssumption DEF StartRun, SyncTypeOK
<1>2. SenderTypeOK'
  BY DEF StartRun, send_init, SyncTypeOK, SenderTypeOK
<1> QED
  BY <1>1, <1>2 DEF StartRun, SyncTypeOK, history

LEMMA TypeNext == SyncTypeOK /\ [SyncNext]_vars => SyncTypeOK'
<1> SUFFICES ASSUME SyncTypeOK, [SyncNext]_vars PROVE SyncTypeOK'
  OBVIOUS
<1>1. CASE UNCHANGED vars
  BY <1>1 DEF vars, senderVars, runVars, history, SyncTypeOK, SenderTypeOK
<1> QED
  BY <1>1, TypeStart, TypeStep, TypeFails, TypeWorld DEF SyncNext

\* Every variable keeps its type, whatever fails and whatever the server does:
\* in particular the lists of objects never hold anything but rendered objects
\* with a body or the dummy body.
THEOREM TypeCorrect == SyncSpec => []SyncTypeOK
BY TypeInit, TypeNext, PTL DEF SyncSpec

-----------------------------------------------------------------------------
\* Lemmas about one request.

LEMMA RecordEffect ==
    ASSUME NEW u \in Uid, NEW out \in Outcome, RecordOutcome(u, out)
    PROVE  /\ doubt' = doubt
           /\ \A v \in Uid \ {u} : /\ v \in touched' <=> v \in touched
                                   /\ v \in new_doubt' <=> v \in new_doubt
           /\ u \notin touched' => out # "ok" /\ u \notin touched
           /\ u \notin new_doubt' => Definite(out) \/ u \notin new_doubt
BY DEF RecordOutcome, Definite, Unknown, Outcome

\* A request for u leaves what the cache file says of every id as true as it
\* was, since u is touched if its resource changed.
LEMMA RequestKeepsCacheFile ==
    ASSUME SyncTypeOK, CacheIsAccurate, NEW req \in Request, NEW out \in Outcome,
           Send(req, out), RecordOutcome(req.uid, out), UNCHANGED cacheFile
    PROVE  CacheIsAccurate'
<1> SUFFICES ASSUME NEW v \in Uid \ (doubt' \cup touched'), Real(cacheFile[v])
             PROVE  server'[EndpointOf[cacheFile[v].type]][v] = cacheFile[v].json
  BY DEF CacheIsAccurate, Real
<1> DEFINE home == EndpointOf[cacheFile[v].type]
<1>1. req.uid \in Uid
  BY DEF Request
<1>2. v \notin doubt \cup touched /\ (v = req.uid => out # "ok")
  BY <1>1, RecordEffect
<1>3. server[home][v] = cacheFile[v].json
  BY <1>2 DEF CacheIsAccurate
<1>4. home \in Endpoint
  BY SyncAssumption DEF SyncTypeOK, ObjectList, RenderedObject, Real
<1>5. server'[home][v] = server[home][v]
  BY <1>2, <1>4, SendEffect DEF SyncTypeOK
<1> QED
  BY <1>3, <1>5

\* For any other id than the one requested, what was known stays true.
LEMMA RequestKeepsOthers ==
    ASSUME SyncTypeOK, NEW req \in Request, NEW out \in Outcome, Send(req, out),
           NEW v \in Uid, v # req.uid, NEW obj \in RenderedObject \cup {Absent},
           Accurate(obj, v)
    PROVE  Real(obj) => server'[EndpointOf[obj.type]][v] = obj.json
<1> SUFFICES ASSUME Real(obj)
             PROVE  server'[EndpointOf[obj.type]][v] = obj.json
  OBVIOUS
<1>1. EndpointOf[obj.type] \in Endpoint
  BY SyncAssumption DEF RenderedObject, Real
<1> QED
  BY <1>1, SendEffect DEF Accurate, SyncTypeOK

\* The invariant speaks of these variables only.
LEMMA AccuracyFrame ==
    ASSUME AccuracyInv,
           UNCHANGED <<server, cacheFile, pc, run, current, cached, pre_rendered,
                       scim_new_cache, handled, swept, doubt, new_doubt, touched>>
    PROVE  AccuracyInv'
BY DEF AccuracyInv, ListsTyped, TypedAsSource, QuietAtFirst, PassRecords, NewCacheOrigin,
       CachedIsAccurate, NewCacheIsAccurate, CacheIsAccurate, Accurate, Real, Swept, IsCurrent

-----------------------------------------------------------------------------
LEMMA AccuracyInit == SyncInit => AccuracyInv
<1> SUFFICES ASSUME SyncInit PROVE AccuracyInv
  OBVIOUS
<1>1. \A u \in Uid : EmptyList[u] = Absent
  BY DEF EmptyList
<1>2. ListsTyped /\ NewCacheIsAccurate /\ CacheIsAccurate
  BY <1>1 DEF SyncInit, ListsTyped, TypedAsSource, NewCacheIsAccurate, Accurate, Real,
              CacheIsAccurate
<1>3. QuietAtFirst /\ PassRecords /\ NewCacheOrigin /\ CachedIsAccurate
  BY <1>1 DEF SyncInit, QuietAtFirst, PassRecords, NewCacheOrigin, CachedIsAccurate
<1> QED
  BY <1>2, <1>3 DEF AccuracyInv

-----------------------------------------------------------------------------
\* process_changes: a create or an update.
LEMMA AccuracyChange ==
    ASSUME SyncTypeOK, AccuracyInv, NEW u \in Uid, NEW out \in Outcome,
           CreateObject(u, out) \/ UpdateObject(u, out)
    PROVE  AccuracyInv'
<1> DEFINE obj == pre_rendered[u]
           home == EndpointOf[obj.type]
<1>1. /\ obj \in SourceObject /\ obj \in RenderedObject
      /\ obj.json \in Json /\ home \in Endpoint
  <2>1. obj \in SourceObject /\ obj \in RenderedObject
    BY SourceObjectIsRendered DEF CreateObject, UpdateObject, Rendered, SyncTypeOK
  <2>2. obj.type \in Type /\ obj.json \in Json
    BY <2>1
  <2> QED
    BY <2>1, <2>2, SyncAssumption
<1>2. /\ pc = "changes" /\ swept = {} /\ IsCurrent(u) /\ u \notin handled
      /\ pc' = pc /\ swept' = swept /\ current' = current /\ cached' = cached
      /\ cacheFile' = cacheFile /\ pre_rendered' = pre_rendered /\ run' = run
      /\ handled' = handled \cup {u}
      /\ RecordOutcome(u, out)
  BY DEF CreateObject, UpdateObject, ChangeFrame, ChangeIsNext, ToChange, IsSent,
         AccuracyInv, QuietAtFirst
<1>3. PICK req \in Request :
         /\ Send(req, out)
         /\ req.uid = u /\ req.endpoint = home
         /\ req.json = obj.json /\ req.op # "DELETE"
  BY <1>1, RequestTypes DEF CreateObject, UpdateObject
<1>4. scim_new_cache[u] = Absent
  BY <1>2 DEF AccuracyInv, NewCacheOrigin, Swept
<1>5. /\ \A v \in Uid \ {u} : scim_new_cache'[v] = scim_new_cache[v]
      /\ \/ scim_new_cache'[u] \in {Absent, DummyObject(obj)}
         \/ scim_new_cache'[u] = obj /\ out = "ok"
  <2>1. PICK new \in RenderedObject \cup {Absent} :
           /\ scim_new_cache' = AddObject(scim_new_cache, u, new)
           /\ new \in {Absent, DummyObject(obj)} \/ (new = obj /\ out = "ok")
    <3>1. DummyObject(obj) \in RenderedObject
      BY <1>1, AfterTypes
    <3>2. /\ AfterCreate(obj, out) \in {Absent, DummyObject(obj)}
                \/ (AfterCreate(obj, out) = obj /\ out = "ok")
      BY DEF AfterCreate
    <3>3. /\ AfterUpdate(obj, out) \in {Absent, DummyObject(obj)}
                \/ (AfterUpdate(obj, out) = obj /\ out = "ok")
      BY DEF AfterUpdate
    <3> QED
      BY <1>1, <3>1, <3>2, <3>3 DEF CreateObject, UpdateObject
  <2> HIDE DEF obj
  <2>2. \A v \in Uid : scim_new_cache'[v] = IF v = u /\ new # Absent THEN new ELSE scim_new_cache[v]
    BY <2>1, AddObjectTypes DEF SyncTypeOK
  <2> QED
    BY <1>4, <2>1, <2>2
<1>6. ListsTyped'
  <2>1. obj = current[u] /\ TypedAsSource(current[u], u)
    BY <1>1, SourceObjectIsRendered DEF AccuracyInv, ListsTyped
  <2>2. TypedAsSource(scim_new_cache'[u], u)
    <3>1. obj # Absent /\ \E s \in SourceStates : s[u] # Absent /\ s[u].type = obj.type
      BY <1>1, <2>1, SourceObjectIsRendered DEF TypedAsSource
    <3>2. DummyObject(obj).type = obj.type
      BY DEF DummyObject
    <3> QED
      BY <1>5, <3>1, <3>2 DEF TypedAsSource
  <2> QED
    BY <1>2, <1>5, <2>2 DEF AccuracyInv, ListsTyped, TypedAsSource
<1>7. QuietAtFirst' /\ PassRecords'
  BY <1>2 DEF AccuracyInv, QuietAtFirst, PassRecords, IsCurrent, BeforeRequests, BeforeQuery
<1>8. NewCacheOrigin'
  BY <1>2, <1>5 DEF AccuracyInv, NewCacheOrigin, Swept
<1>9. CachedIsAccurate'
  <2> SUFFICES ASSUME ~run.rebuild, NEW v \in Uid \ (new_doubt' \cup handled')
               PROVE  Accurate(cached[v], v)'
    BY <1>2 DEF CachedIsAccurate, Accurate, Real
  <2>1. v # u /\ v \notin new_doubt \cup handled /\ ~Swept(v)
    BY <1>2, RecordEffect DEF Swept
  <2>2. Accurate(cached[v], v)
    BY <1>2, <2>1 DEF AccuracyInv, CachedIsAccurate
  <2> QED
    BY <1>2, <1>3, <2>1, <2>2, RequestKeepsOthers DEF SyncTypeOK, ObjectList, Accurate, Real
<1>10. NewCacheIsAccurate'
  <2> SUFFICES ASSUME NEW v \in Uid \ new_doubt'
               PROVE  Accurate(scim_new_cache[v], v)'
    BY DEF NewCacheIsAccurate
  <2>1. CASE v # u
    <3>1. v \notin new_doubt
      BY <1>2, <2>1, RecordEffect
    <3>2. Accurate(scim_new_cache[v], v)
      BY <3>1 DEF AccuracyInv, NewCacheIsAccurate
    <3> QED
      BY <1>3, <1>5, <2>1, <3>2, RequestKeepsOthers DEF SyncTypeOK, ObjectList, Accurate, Real
  <2>2. CASE v = u /\ scim_new_cache'[u] \in {Absent, DummyObject(obj)}
    BY <1>1, <2>2, AfterTypes DEF Accurate, Real
  <2>3. CASE v = u /\ scim_new_cache'[u] = obj /\ out = "ok"
    <3>1. server'[home][u] = obj.json
      BY <1>1, <1>3, <2>3, SendEffect DEF SyncTypeOK
    <3> QED
      BY <2>3, <3>1 DEF Accurate, Real
  <2> QED
    BY <1>5, <2>1, <2>2, <2>3
<1>11. CacheIsAccurate'
  BY <1>2, <1>3, RequestKeepsCacheFile DEF AccuracyInv
<1> QED
  BY <1>6, <1>7, <1>8, <1>9, <1>10, <1>11 DEF AccuracyInv

-----------------------------------------------------------------------------
\* process_deletes.
LEMMA AccuracyDelete ==
    ASSUME TypesFixed, SyncTypeOK, AccuracyInv, NEW u \in Uid, NEW out \in Outcome,
           DeleteObject(u, out)
    PROVE  AccuracyInv'
<1> DEFINE obj == cached[u]
           home == EndpointOf[obj.type]
<1>1. /\ obj \in RenderedObject /\ obj # Absent /\ home \in Endpoint
      /\ ~IsCurrentAs(u, obj.type) /\ <<home, u>> \notin swept /\ ~run.rebuild
  <2>1. /\ obj \in RenderedObject /\ obj # Absent
        /\ ~IsCurrentAs(u, obj.type) /\ <<home, u>> \notin swept /\ ~run.rebuild
    BY DEF DeleteObject, Obsolete, IsObsolete, SyncTypeOK, ObjectList
  <2> QED
    BY <2>1, SyncAssumption DEF RenderedObject
<1>2. /\ pc = "deletes"
      /\ pc' = pc /\ handled' = handled /\ current' = current /\ cached' = cached
      /\ cacheFile' = cacheFile /\ pre_rendered' = pre_rendered /\ run' = run
      /\ swept' = swept \cup {<<home, u>>}
      /\ RecordOutcome(u, out)
  BY DEF DeleteObject, DeleteFrame
<1>3. ~IsCurrent(u) /\ u \notin handled
  <2>1. TypedAsSource(obj, u) /\ TypedAsSource(current[u], u)
    BY DEF AccuracyInv, ListsTyped
  <2>2. IsCurrent(u) => current[u].type = obj.type
    BY <1>1, <2>1 DEF TypedAsSource, TypesFixed, IsCurrent
  <2> QED
    BY <1>1, <2>2 DEF IsCurrentAs, AccuracyInv, PassRecords
<1>4. ~Swept(u) /\ scim_new_cache[u] = Absent
  BY <1>1, <1>3 DEF AccuracyInv, PassRecords, NewCacheOrigin, Swept
<1>5. PICK req \in Request :
         /\ Send(req, out)
         /\ req.uid = u /\ req.op = "DELETE"
  BY <1>1 DEF DeleteObject, Request
<1>6. /\ \A v \in Uid \ {u} : scim_new_cache'[v] = scim_new_cache[v]
      /\ \/ scim_new_cache'[u] = Absent
         \/ scim_new_cache'[u] = obj /\ out \notin {"ok", "missing"}
  <2>1. AfterDelete(obj, out) \in RenderedObject \cup {Absent}
        /\ \/ AfterDelete(obj, out) = Absent
           \/ (out \notin {"ok", "missing"} /\ AfterDelete(obj, out) = obj)
    BY <1>1 DEF AfterDelete
  <2>2. scim_new_cache' = AddObject(scim_new_cache, u, AfterDelete(obj, out))
    BY DEF DeleteObject
  <2> QED
    BY <1>4, <2>1, <2>2, AddObjectTypes DEF SyncTypeOK
<1>7. ListsTyped'
  BY <1>2, <1>6 DEF AccuracyInv, ListsTyped, TypedAsSource
<1>8. QuietAtFirst'
  BY <1>2 DEF QuietAtFirst, BeforeRequests, BeforeQuery
<1>9. PassRecords'
  BY <1>1, <1>2 DEF AccuracyInv, PassRecords, IsCurrent
<1>10. NewCacheOrigin'
  BY <1>1, <1>2, <1>6 DEF AccuracyInv, NewCacheOrigin, Swept
<1>11. CachedIsAccurate'
  <2> SUFFICES ASSUME NEW v \in Uid \ (new_doubt' \cup handled'), ~Swept(v)'
               PROVE  Accurate(cached[v], v)'
    BY <1>2 DEF CachedIsAccurate, Accurate, Real
  <2>1. v # u /\ v \notin new_doubt \cup handled /\ ~Swept(v)
    BY <1>1, <1>2, RecordEffect DEF Swept
  <2>2. Accurate(cached[v], v)
    BY <1>1, <1>2, <2>1 DEF AccuracyInv, CachedIsAccurate
  <2> QED
    BY <1>2, <1>5, <2>1, <2>2, RequestKeepsOthers DEF SyncTypeOK, ObjectList, Accurate, Real
<1>12. NewCacheIsAccurate'
  <2> SUFFICES ASSUME NEW v \in Uid \ new_doubt'
               PROVE  Accurate(scim_new_cache[v], v)'
    BY DEF NewCacheIsAccurate
  <2>1. CASE v # u
    <3>1. v \notin new_doubt
      BY <1>2, <2>1, RecordEffect
    <3>2. Accurate(scim_new_cache[v], v)
      BY <3>1 DEF AccuracyInv, NewCacheIsAccurate
    <3> QED
      BY <1>5, <1>6, <2>1, <3>2, RequestKeepsOthers DEF SyncTypeOK, ObjectList, Accurate, Real
  <2>2. CASE v = u /\ scim_new_cache'[u] = Absent
    BY <2>2 DEF Accurate, Real
  <2>3. CASE v = u /\ scim_new_cache'[u] = obj /\ out \notin {"ok", "missing"}
    <3>1. out # "conflict" /\ server' = server
      BY <1>1, <1>5, <2>3, SendEffect DEF SyncTypeOK
    <3>2. u \notin new_doubt
      BY <1>2, <2>3, <3>1, RecordEffect DEF Definite
    <3>3. Accurate(obj, u)
      BY <1>1, <1>2, <1>3, <1>4, <3>2 DEF AccuracyInv, CachedIsAccurate
    <3> QED
      BY <2>3, <3>1, <3>3 DEF Accurate, Real
  <2> QED
    BY <1>6, <2>1, <2>2, <2>3
<1>13. CacheIsAccurate'
  BY <1>2, <1>5, RequestKeepsCacheFile DEF AccuracyInv
<1> QED
  BY <1>7, <1>8, <1>9, <1>10, <1>11, <1>12, <1>13 DEF AccuracyInv

\* process_deletes_per_endpoint.
LEMMA AccuracyDeleteStray ==
    ASSUME SyncTypeOK, AccuracyInv, NEW e \in Endpoint, NEW u \in Uid, NEW out \in Outcome,
           DeleteStray(e, u, out)
    PROVE  AccuracyInv'
<1>1. run.rebuild /\ ~IsCurrent(u)
  BY DEF DeleteStray, Strays
<1>2. /\ pc = "deletes"
      /\ pc' = pc /\ handled' = handled /\ current' = current /\ cached' = cached
      /\ cacheFile' = cacheFile /\ pre_rendered' = pre_rendered /\ run' = run
      /\ scim_new_cache' = scim_new_cache
      /\ RecordOutcome(u, out)
  BY DEF DeleteStray, DeleteFrame
<1>3. PICK req \in Request : Send(req, out) /\ req.uid = u
  BY DEF DeleteStray, Request
<1>4. scim_new_cache[u] = Absent
  BY <1>1 DEF AccuracyInv, PassRecords, NewCacheOrigin
<1>5. ListsTyped' /\ QuietAtFirst' /\ PassRecords'
  BY <1>1, <1>2 DEF AccuracyInv, ListsTyped, TypedAsSource, QuietAtFirst, PassRecords,
                    IsCurrent, BeforeRequests, BeforeQuery
<1>6. NewCacheOrigin' /\ CachedIsAccurate'
  BY <1>1, <1>2 DEF AccuracyInv, NewCacheOrigin, CachedIsAccurate
<1>7. NewCacheIsAccurate'
  <2> SUFFICES ASSUME NEW v \in Uid \ new_doubt'
               PROVE  Accurate(scim_new_cache[v], v)'
    BY DEF NewCacheIsAccurate
  <2>1. CASE v # u
    <3>1. v \notin new_doubt
      BY <1>2, <2>1, RecordEffect
    <3>2. Accurate(scim_new_cache[v], v)
      BY <3>1 DEF AccuracyInv, NewCacheIsAccurate
    <3> QED
      BY <1>2, <1>3, <2>1, <3>2, RequestKeepsOthers DEF SyncTypeOK, ObjectList, Accurate, Real
  <2>2. CASE v = u
    BY <1>2, <1>4, <2>2 DEF Accurate, Real
  <2> QED
    BY <2>1, <2>2
<1>8. CacheIsAccurate'
  BY <1>2, <1>3, RequestKeepsCacheFile DEF AccuracyInv
<1> QED
  BY <1>5, <1>6, <1>7, <1>8 DEF AccuracyInv

-----------------------------------------------------------------------------
\* The steps that send nothing.

\* Nothing the invariant speaks of changes, except which ids are in doubt at
\* the first, and how far the run has come.
LEMMA AccuracyEarly ==
    ASSUME SyncTypeOK, AccuracyInv,
           read_cache \/ ThresholdsPass \/ ForceOptions \/ \E e \in Endpoint : QueryEndpoint(e)
    PROVE  AccuracyInv'
<1>1. /\ pc \in BeforeRequests /\ pc' \in BeforeRequests \ {"idle", "read_cache"}
      /\ UNCHANGED <<server, cacheFile, current, pre_rendered, scim_new_cache, handled,
                     swept, touched, doubt, run>>
  BY DEF read_cache, ThresholdsPass, ForceOptions, QueryEndpoint, BeforeRequests,
         senderVars, history
<1>2. touched = {} /\ handled = {} /\ swept = {} /\ scim_new_cache = EmptyList
      /\ pre_rendered = EmptyList
  BY <1>1 DEF AccuracyInv, QuietAtFirst
<1>3. /\ pc \in BeforeQuery => new_doubt = doubt
      /\ new_doubt' = new_doubt \/ (run.rebuild /\ pc = "query")
      /\ pc' \in BeforeQuery => pc \in BeforeQuery /\ new_doubt' = new_doubt
      /\ pc' = "query" => run.rebuild
  BY DEF read_cache, ThresholdsPass, ForceOptions, QueryEndpoint, AccuracyInv, QuietAtFirst,
         BeforeQuery, senderVars, history
<1>4. \A u \in Uid :
         \/ cached'[u] \in {cached[u], Absent}
         \/ cached'[u] = cacheFile[u] /\ pc = "read_cache"
         \/ cached[u] # Absent /\ cached'[u] = DummyObject(cached[u])
  <2>1. CASE ForceOptions
    BY <2>1 DEF ForceOptions, RemoveObjects, MakeDirty
  <2>2. CASE ~ForceOptions
    BY <2>2 DEF read_cache, ThresholdsPass, QueryEndpoint
  <2> QED
    BY <2>1, <2>2
<1>5. \A u \in Uid : cached[u] # Absent =>
         /\ DummyObject(cached[u]).type = cached[u].type
         /\ DummyObject(cached[u]).json = DummyJson
  BY DEF DummyObject
<1>6. ListsTyped'
  BY <1>1, <1>4, <1>5 DEF AccuracyInv, ListsTyped, TypedAsSource
<1>7. QuietAtFirst'
  BY <1>1, <1>2, <1>3 DEF QuietAtFirst, EmptyList, AccuracyInv
<1>8. PassRecords' /\ NewCacheOrigin'
  BY <1>1, <1>2 DEF PassRecords, NewCacheOrigin, EmptyList
<1>9. CachedIsAccurate'
  <2> SUFFICES ASSUME ~run.rebuild, NEW u \in Uid \ new_doubt', Real(cached'[u])
               PROVE  server[EndpointOf[cached'[u].type]][u] = cached'[u].json
    BY <1>1 DEF CachedIsAccurate, Accurate, Real
  <2>1. u \notin new_doubt
    BY <1>3
  <2>2. CASE cached'[u] = cacheFile[u] /\ pc = "read_cache"
    BY <1>2, <1>3, <2>1, <2>2 DEF AccuracyInv, CacheIsAccurate, BeforeQuery, Real
  <2>3. CASE cached'[u] = cached[u] /\ pc # "read_cache"
    <3>1. pc # "idle"
      BY <1>1, <1>3 DEF read_cache, ThresholdsPass, ForceOptions, QueryEndpoint
    <3> QED
      BY <1>2, <2>1, <2>3, <3>1 DEF AccuracyInv, CachedIsAccurate, Accurate, Real, Swept
  <2>4. cached'[u] # cached[u] \/ pc # "read_cache" \/ cached'[u] = cacheFile[u]
    BY DEF read_cache, ThresholdsPass, ForceOptions, QueryEndpoint
  <2> QED
    BY <1>4, <1>5, <2>2, <2>3, <2>4 DEF Real
<1>10. NewCacheIsAccurate'
  BY <1>1, <1>2 DEF NewCacheIsAccurate, Accurate, Real, EmptyList
<1>11. CacheIsAccurate'
  BY <1>1 DEF AccuracyInv, CacheIsAccurate, Real
<1> QED
  BY <1>6, <1>7, <1>8, <1>9, <1>10, <1>11 DEF AccuracyInv

\* Rendering, and the turns from one pass to the next.
LEMMA AccuracyBetween ==
    ASSUME SyncTypeOK, AccuracyInv, RenderAndPreallocate \/ ChangesDone \/ DeletesDone
    PROVE  AccuracyInv'
<1>1. /\ UNCHANGED <<server, cacheFile, current, cached, scim_new_cache, handled, swept,
                     touched, doubt, new_doubt, run>>
      /\ pc \notin {"idle", "read_cache"} /\ pc' \in {"changes", "deletes", "finalize"}
      /\ pc' = "changes" => pc = "begin"
  BY DEF RenderAndPreallocate, ChangesDone, DeletesDone, senderVars, history
<1>2. \A u \in Uid : pre_rendered'[u] \in {current[u], Absent}
  BY DEF RenderAndPreallocate, ChangesDone, DeletesDone, AccuracyInv, ListsTyped
<1>3. ListsTyped'
  BY <1>1, <1>2 DEF AccuracyInv, ListsTyped, TypedAsSource
<1>4. QuietAtFirst'
  BY <1>1 DEF AccuracyInv, QuietAtFirst, BeforeRequests, BeforeQuery
<1>5. PassRecords' /\ NewCacheOrigin'
  BY <1>1 DEF AccuracyInv, PassRecords, NewCacheOrigin, Swept, IsCurrent
<1>6. CachedIsAccurate' /\ NewCacheIsAccurate' /\ CacheIsAccurate'
  BY <1>1 DEF AccuracyInv, CachedIsAccurate, NewCacheIsAccurate, CacheIsAccurate,
              Accurate, Real, Swept
<1> QED
  BY <1>3, <1>4, <1>5, <1>6 DEF AccuracyInv

\* An object of the cache, or none, goes to the new cache with nothing sent.
LEMMA AccuracyKeep ==
    ASSUME SyncTypeOK, AccuracyInv, NEW u \in Uid, CopyObject(u) \/ SkipUnrendered(u)
    PROVE  AccuracyInv'
<1>1. /\ UNCHANGED <<server, cacheFile, current, cached, pre_rendered, swept, pc,
                     touched, doubt, new_doubt, run>>
      /\ pc = "changes" /\ IsCurrent(u) /\ u \notin handled
      /\ handled' = handled \cup {u}
  BY DEF CopyObject, SkipUnrendered, ChangeFrame, ChangeIsNext, ToChange, IsSent,
         senderVars, history
<1>2. \A v \in Uid : scim_new_cache'[v] = scim_new_cache[v]
         \/ (v = u /\ scim_new_cache'[v] = cached[v] /\ ~run.rebuild)
  BY AddObjectTypes DEF CopyObject, SkipUnrendered, IsCopy, SyncTypeOK, ObjectList
<1>3. ~Swept(u)
  BY <1>1 DEF AccuracyInv, QuietAtFirst, Swept
<1>4. ListsTyped'
  BY <1>1, <1>2 DEF AccuracyInv, ListsTyped, TypedAsSource
<1>5. QuietAtFirst' /\ PassRecords'
  BY <1>1 DEF AccuracyInv, QuietAtFirst, PassRecords, BeforeRequests, BeforeQuery, IsCurrent
<1>6. NewCacheOrigin'
  BY <1>1, <1>2 DEF AccuracyInv, NewCacheOrigin, Swept
<1>7. CachedIsAccurate' /\ CacheIsAccurate'
  BY <1>1 DEF AccuracyInv, CachedIsAccurate, CacheIsAccurate, Accurate, Real, Swept
<1>8. NewCacheIsAccurate'
  <2> SUFFICES ASSUME NEW v \in Uid \ new_doubt PROVE Accurate(scim_new_cache[v], v)'
    BY <1>1 DEF NewCacheIsAccurate
  <2>1. Accurate(scim_new_cache[v], v)
    BY DEF AccuracyInv, NewCacheIsAccurate
  <2>2. v = u /\ ~run.rebuild => Accurate(cached[v], v)
    BY <1>1, <1>3 DEF AccuracyInv, CachedIsAccurate
  <2> QED
    BY <1>1, <1>2, <2>1, <2>2 DEF Accurate, Real
<1> QED
  BY <1>4, <1>5, <1>6, <1>7, <1>8 DEF AccuracyInv

-----------------------------------------------------------------------------
\* The start and the end of a run.

LEMMA AccuracyStart ==
    ASSUME SyncTypeOK, AccuracyInv, NEW r \in Runs, StartRun(r)
    PROVE  AccuracyInv'
<1>1. /\ UNCHANGED <<server, cacheFile, cached, pre_rendered, scim_new_cache, handled,
                     swept, touched, doubt, new_doubt>>
      /\ pc = "idle" /\ pc' = "read_cache"
      /\ current' = EmptyList \/ current' = source
  BY DEF StartRun, history
<1>2. touched = {} /\ handled = {} /\ swept = {} /\ scim_new_cache = EmptyList
      /\ pre_rendered = EmptyList /\ new_doubt = doubt
  BY <1>1 DEF AccuracyInv, QuietAtFirst, BeforeRequests, BeforeQuery
<1>3. ListsTyped'
  <2>1. \A u \in Uid : TypedAsSource(current'[u], u)
    BY <1>1 DEF TypedAsSource, EmptyList, SyncTypeOK
  <2> QED
    BY <1>1, <1>2, <2>1 DEF AccuracyInv, ListsTyped, TypedAsSource, EmptyList
<1>4. QuietAtFirst' /\ PassRecords' /\ NewCacheOrigin' /\ CachedIsAccurate'
  BY <1>1, <1>2 DEF QuietAtFirst, PassRecords, NewCacheOrigin, CachedIsAccurate, EmptyList
<1>5. NewCacheIsAccurate' /\ CacheIsAccurate'
  BY <1>1 DEF AccuracyInv, NewCacheIsAccurate, CacheIsAccurate, Accurate, Real
<1> QED
  BY <1>3, <1>4, <1>5 DEF AccuracyInv

\* A run that ends leaves a cache file that tells the truth.
LEMMA AccuracyEnd ==
    ASSUME EndRun, CacheIsAccurate', new_doubt' = doubt',
           \A u \in Uid : TypedAsSource(cacheFile'[u], u)
    PROVE  AccuracyInv'
<1>1. ListsTyped'
  BY DEF EndRun, EmptyList, ListsTyped, TypedAsSource
<1>2. QuietAtFirst' /\ PassRecords' /\ NewCacheOrigin' /\ CachedIsAccurate'
  BY DEF EndRun, EmptyList, QuietAtFirst, PassRecords, NewCacheOrigin, CachedIsAccurate
<1>3. NewCacheIsAccurate'
  BY DEF EndRun, EmptyList, NewCacheIsAccurate, Accurate, Real
<1> QED
  BY <1>1, <1>2, <1>3 DEF AccuracyInv

LEMMA AccuracyEndUnsaved ==
    ASSUME AccuracyInv, EndRunUnsaved, UNCHANGED server
    PROVE  AccuracyInv'
<1>1. CacheIsAccurate'
  BY DEF AccuracyInv, EndRunUnsaved, EndRun, CacheIsAccurate, Real
<1>2. \A u \in Uid : TypedAsSource(cacheFile'[u], u)
  BY DEF AccuracyInv, EndRunUnsaved, ListsTyped
<1> QED
  BY <1>1, <1>2, AccuracyEnd DEF EndRunUnsaved

LEMMA AccuracyFinalize ==
    ASSUME AccuracyInv, FinalizeCacheFile
    PROVE  AccuracyInv'
<1>1. CacheIsAccurate'
  BY DEF AccuracyInv, FinalizeCacheFile, EndRun, CacheIsAccurate, NewCacheIsAccurate,
         Accurate, Real, senderVars
<1>2. \A u \in Uid : TypedAsSource(cacheFile'[u], u)
  BY DEF AccuracyInv, FinalizeCacheFile, ListsTyped
<1> QED
  BY <1>1, <1>2, AccuracyEnd DEF FinalizeCacheFile

-----------------------------------------------------------------------------
\* Steps of the world.

LEMMA AccuracyWorld ==
    ASSUME SyncTypeOK, AccuracyInv, WorldStep,
           ~\E kind \in {"lost"} \cup Damage : CacheFileHarmed(kind)
    PROVE  AccuracyInv'
<1>1. /\ UNCHANGED <<cacheFile, current, cached, pre_rendered, scim_new_cache, handled,
                     swept, pc, run, touched>>
      /\ doubt \subseteq doubt' /\ new_doubt \subseteq new_doubt'
      /\ new_doubt = doubt => new_doubt' = doubt'
  BY DEF WorldStep, SourceChanges, LateRequestArrives, LateRequestIsLost, OthersChangeServer,
         AddDoubt, runVars, history
<1>2. \A e \in Endpoint, u \in Uid :
         server'[e][u] = server[e][u] \/ (u \in doubt' /\ u \in new_doubt')
  <2> SUFFICES ASSUME NEW e \in Endpoint, NEW u \in Uid
               PROVE  server'[e][u] = server[e][u] \/ (u \in doubt' /\ u \in new_doubt')
    OBVIOUS
  <2>1. server \in [Endpoint -> [Uid -> Json \cup {Absent}]]
    BY DEF SyncTypeOK, SenderTypeOK
  <2>2. CASE SourceChanges \/ \E req \in late : LateRequestIsLost(req)
    BY <2>2 DEF SourceChanges, LateRequestIsLost, LateLost, senderVars
  <2>3. ASSUME NEW req \in late, LateRequestArrives(req)
        PROVE  server'[e][u] = server[e][u] \/ (u \in doubt' /\ u \in new_doubt')
    <3>1. req.endpoint \in Endpoint /\ req.uid \in Uid
      BY DEF SyncTypeOK, SenderTypeOK, Request
    <3>2. u # req.uid => server'[e][u] = server[e][u]
      BY <2>1, <2>3, <3>1 DEF LateRequestArrives, LateArrival, Handled
    <3> QED
      BY <2>3, <3>2 DEF LateRequestArrives, AddDoubt
  <2>4. ASSUME NEW w \in Uid, OthersChangeServer(w)
        PROVE  server'[e][u] = server[e][u] \/ (u \in doubt' /\ u \in new_doubt')
    <3>1. u # w => server'[e][u] = server[e][u]
      <4>1. PICK f \in HomesOf(w) : ServerChangedByOthers(f, w)
        BY <2>4 DEF OthersChangeServer
      <4>2. f \in Endpoint
        BY SyncAssumption DEF HomesOf
      <4> QED
        BY <2>1, <4>1, <4>2 DEF ServerChangedByOthers
    <3> QED
      BY <2>4, <3>1 DEF OthersChangeServer, AddDoubt
  <2> QED
    BY <2>2, <2>3, <2>4 DEF WorldStep
<1>3. \A obj \in RenderedObject, u \in Uid : Real(obj) =>
         EndpointOf[obj.type] \in Endpoint
  BY SyncAssumption DEF RenderedObject, Real
<1>4. ListsTyped' /\ QuietAtFirst' /\ PassRecords' /\ NewCacheOrigin'
  BY <1>1 DEF AccuracyInv, ListsTyped, TypedAsSource, QuietAtFirst, PassRecords,
              NewCacheOrigin, Swept, IsCurrent, BeforeRequests, BeforeQuery
<1>5. CachedIsAccurate'
  BY <1>1, <1>2, <1>3 DEF AccuracyInv, CachedIsAccurate, Accurate, Real, Swept,
                          SyncTypeOK, ObjectList
<1>6. NewCacheIsAccurate'
  BY <1>1, <1>2, <1>3 DEF AccuracyInv, NewCacheIsAccurate, Accurate, Real,
                          SyncTypeOK, ObjectList
<1>7. CacheIsAccurate'
  BY <1>1, <1>2, <1>3 DEF AccuracyInv, CacheIsAccurate, Real, SyncTypeOK, ObjectList
<1> QED
  BY <1>4, <1>5, <1>6, <1>7 DEF AccuracyInv

\* A cache file that is lost or damaged says nothing, so nothing wrong.
LEMMA AccuracyHarmed ==
    ASSUME SyncTypeOK, AccuracyInv, NEW kind \in {"lost"} \cup Damage, CacheFileHarmed(kind)
    PROVE  AccuracyInv'
<1>1. /\ UNCHANGED <<server, current, cached, pre_rendered, scim_new_cache, handled,
                     swept, pc, run, touched>>
      /\ pc = "idle" /\ cacheFile' = EmptyList /\ new_doubt' = doubt'
      /\ doubt \subseteq doubt'
  BY DEF CacheFileHarmed, runVars
<1>2. new_doubt \subseteq new_doubt'
  BY <1>1 DEF AccuracyInv, QuietAtFirst, BeforeQuery
<1>3. ListsTyped' /\ QuietAtFirst' /\ PassRecords' /\ NewCacheOrigin'
  BY <1>1 DEF AccuracyInv, ListsTyped, TypedAsSource, QuietAtFirst, PassRecords,
              NewCacheOrigin, Swept, IsCurrent, BeforeRequests, BeforeQuery, EmptyList
<1>4. CachedIsAccurate' /\ CacheIsAccurate'
  BY <1>1 DEF CachedIsAccurate, CacheIsAccurate, Real, EmptyList
<1>5. NewCacheIsAccurate'
  BY <1>1, <1>2 DEF AccuracyInv, NewCacheIsAccurate, Accurate, Real
<1> QED
  BY <1>3, <1>4, <1>5 DEF AccuracyInv

-----------------------------------------------------------------------------
LEMMA AccuracyNext ==
    ASSUME TypesFixed, SyncTypeOK, AccuracyInv, [SyncNext]_vars
    PROVE  AccuracyInv'
<1>1. CASE UNCHANGED vars
  BY <1>1, AccuracyFrame DEF vars, senderVars, runVars, history
<1>2. CASE RunStep
  <2>1. CASE ThresholdsStop \/ CacheTruncated
    BY <2>1, AccuracyEndUnsaved DEF ThresholdsStop, CacheTruncated, senderVars
  <2> QED
    BY <1>2, <2>1, AccuracyEarly, AccuracyBetween, AccuracyKeep, AccuracyChange,
       AccuracyDelete, AccuracyDeleteStray, AccuracyFinalize DEF RunStep
<1>3. CASE RunFails
  <2>1. CASE LoadFails
    BY <2>1, AccuracyFrame DEF LoadFails, runVars, history
  <2>2. CASE ~LoadFails
    BY <1>3, <2>2, AccuracyEndUnsaved
       DEF RunFails, CacheUnreadable, QueryFails, PreallocationFails, FinalizeFails,
           SettingMissing, Crash
  <2> QED
    BY <2>1, <2>2
<1> QED
  BY <1>1, <1>2, <1>3, AccuracyStart, AccuracyWorld, AccuracyHarmed DEF SyncNext, WorldStep

\* The whole inductive invariant, so that other proofs can cite it: what is in
\* the program's lists, in the passes' records and in the cache file at any
\* moment of any run (run_main, perform), as long as every id keeps its type.
THEOREM AccuracyInvariant ==
    ASSUME TypesFixed
    PROVE  SyncSpec => []AccuracyInv
<1>1. SyncInit => SyncTypeOK /\ AccuracyInv
  BY TypeInit, AccuracyInit
<1>2. SyncTypeOK /\ AccuracyInv /\ [SyncNext]_vars => SyncTypeOK' /\ AccuracyInv'
  BY TypeNext, AccuracyNext
<1> QED
  BY <1>1, <1>2, PTL DEF SyncSpec

\* As long as every id keeps its type, the cache file tells the truth in every
\* reachable state, for any number of ids, types, endpoints, runs and failures:
\* an object it holds for real is on the server with that body, unless the id is
\* in doubt or has been touched by the run under way.
THEOREM CacheAccuracy ==
    ASSUME TypesFixed
    PROVE  SyncSpec => []CacheIsAccurate
<1>1. AccuracyInv => CacheIsAccurate
  BY DEF AccuracyInv
<1> QED
  BY <1>1, AccuracyInvariant, PTL

-----------------------------------------------------------------------------
\* The same invariant rules out a DELETE for an id the data source still has,
\* whatever the run did before it reached the delete pass.
THEOREM NoDeleteOfCurrent ==
    ASSUME TypesFixed
    PROVE  SyncSpec => DeletesOnlyGone
<1>1. AccuracyInv =>
          [\A u \in Uid, out \in Outcome : DeleteObject(u, out) => ~IsCurrent(u)]_vars
  <2> SUFFICES ASSUME AccuracyInv, NEW u \in Uid, NEW out \in Outcome,
                      DeleteObject(u, out), IsCurrent(u)
               PROVE  FALSE
    OBVIOUS
  <2>1. TypedAsSource(cached[u], u) /\ TypedAsSource(current[u], u)
    BY DEF AccuracyInv, ListsTyped
  <2>2. cached[u] # Absent /\ ~IsCurrentAs(u, cached[u].type)
    BY DEF DeleteObject, Obsolete, IsObsolete
  <2> QED
    BY <2>1, <2>2 DEF TypedAsSource, TypesFixed, IsCurrent, IsCurrentAs
<1> QED
  BY <1>1, AccuracyInvariant, PTL DEF DeletesOnlyGone

-----------------------------------------------------------------------------
\* The refinement: under the mapping of ScimMirror each step of the client is a
\* step of Mirror or leaves its variables alone.  First, lemmas about the mapping.

LEMMA PlaceFacts ==
    ASSUME NEW e \in Endpoint, NEW u \in Uid
    PROVE  <<e, u>> \in Places /\ <<e, u>>[1] = e /\ <<e, u>>[2] = u
BY DEF Places

LEMMA AtPlacesFacts ==
    ASSUME NEW list \in [Uid -> SourceObject \cup {Absent}]
    PROVE  /\ AtPlaces(list) \in [Places -> Json \cup {Absent}]
           /\ AtPlaces(list) # Absent
           /\ \A e \in Endpoint, u \in Uid :
                  AtPlaces(list)[<<e, u>>] =
                      IF list[u] # Absent /\ EndpointOf[list[u].type] = e THEN list[u].json
                      ELSE Absent
<1>1. AtPlaces(list) \in [Places -> Json \cup {Absent}]
  BY DEF AtPlaces, Places
<1> QED
  BY <1>1, PlaceFacts, MirrorAssumption DEF AtPlaces

\* A run is on in the abstract as long as it is in the program.
LEMMA RunningIsNotIdle ==
    ASSUME SyncTypeOK
    PROVE  Mirroring!Running <=> pc # "idle"
BY AtPlacesFacts DEF Mirroring!Running, RunView, SyncTypeOK

\* One request's change of the server, as a change at its place.
LEMMA ServerPlacesChange ==
    ASSUME SenderTypeOK, NEW req \in Request, server' = Handled(req), Respond(req) = "ok"
    PROVE  ServerPlaces' = [ServerPlaces EXCEPT ![<<req.endpoint, req.uid>>] = AsWrite(req).body]
<1>1. req.endpoint \in Endpoint /\ req.uid \in Uid
  BY DEF Request
<1>2. \A e \in Endpoint, u \in Uid :
         server'[e][u] = IF e = req.endpoint /\ u = req.uid THEN AsWrite(req).body
                         ELSE server[e][u]
  BY <1>1 DEF Handled, AsWrite, SenderTypeOK
<1>3. \A p \in Places :
         /\ p[1] \in Endpoint /\ p[2] \in Uid
         /\ p = <<req.endpoint, req.uid>> <=> p[1] = req.endpoint /\ p[2] = req.uid
  BY DEF Places
<1> QED
  BY <1>2, <1>3 DEF ServerPlaces

\* The late writes once a late request is gone: another one may amount to the
\* same write.
LEMMA LateWritesLess ==
    ASSUME NEW req \in late, late' = late \ {req}
    PROVE  /\ AsWrite(req) \in LateWrites
           /\ LateWrites' \in {LateWrites, LateWrites \ {AsWrite(req)}}
BY DEF LateWrites

\* No place is written for an id that was not handled, unless it was swept.
LEMMA SettledPlace ==
    ASSUME NEW e \in Endpoint, NEW u \in Uid, u \notin handled, <<e, u>> \notin swept
    PROVE  <<e, u>> \notin SettledPlaces
BY DEF SettledPlaces, CurrentPlace

\* What the abstract state consists of.
LEMMA MirrorFrame ==
    ASSUME UNCHANGED <<source, server, pc, current, swept, handled, late, faults>>
    PROVE  UNCHANGED <<AtPlaces(source), ServerPlaces, RunView, SettledPlaces, LateWrites, faults>>
BY DEF AtPlaces, ServerPlaces, RunView, SettledPlaces, CurrentPlace, LateWrites, AsWrite
-----------------------------------------------------------------------------
\* What one request is in the abstract.

\* A request that asks for what the run has seen at a place not settled before
\* is a write, a delayed write, or no write.
LEMMA RequestIsWrite ==
    ASSUME SyncTypeOK, pc # "idle", NEW req \in Request, NEW out \in Outcome, Send(req, out),
           <<req.endpoint, req.uid>> \notin SettledPlaces,
           AsWrite(req).body = RunView[<<req.endpoint, req.uid>>],
           SettledPlaces' = SettledPlaces \cup {<<req.endpoint, req.uid>>},
           UNCHANGED <<source, pc, current>>
    PROVE  Mirroring!MirrorNext
<1> DEFINE p == <<req.endpoint, req.uid>>
<1>1. p \in Places /\ Mirroring!Running
  BY PlaceFacts, RunningIsNotIdle DEF Request
<1>2. UNCHANGED <<AtPlaces(source), RunView>>
  BY DEF AtPlaces, RunView
<1>3. Mirroring!Wanted(p) = AsWrite(req)
  BY DEF Mirroring!Wanted, AsWrite
<1>4. CASE out = "ok"
  <2>1. server' = Handled(req) /\ Respond(req) = "ok" /\ UNCHANGED <<late, faults>>
    BY <1>4 DEF Send, CurlFails
  <2>2. ServerPlaces' = [ServerPlaces EXCEPT ![p] = RunView[p]] /\ UNCHANGED LateWrites
    BY <2>1, ServerPlacesChange DEF SyncTypeOK, LateWrites
  <2>3. Mirroring!Push(p)
    BY <1>1, <1>2, <2>1, <2>2 DEF Mirroring!Push
  <2> QED
    BY <1>1, <2>3 DEF Mirroring!MirrorNext
<1>5. CASE out \in {"timeout", "broken"}
  <2>1. server' = server /\ late' = late \cup {req} /\ faults' = faults + 1
    BY <1>5 DEF Send, CurlFails, Fault, Respond
  <2>2. UNCHANGED ServerPlaces /\ LateWrites' = LateWrites \cup {AsWrite(req)}
    BY <2>1 DEF ServerPlaces, LateWrites, AsWrite
  <2>3. Mirroring!Delay(p)
    BY <1>1, <1>2, <1>3, <2>1, <2>2 DEF Mirroring!Delay
  <2> QED
    BY <1>1, <2>3 DEF Mirroring!MirrorNext
<1>6. CASE out \in {"conflict", "missing", "error", "refused", "aborted"}
  <2>1. server' = server /\ late' = late /\ faults' \in {faults, faults + 1}
    BY <1>6 DEF Send, CurlFails, Fault, Respond, Handled, senderVars
  <2>2. UNCHANGED <<ServerPlaces, LateWrites>>
    BY <2>1 DEF ServerPlaces, LateWrites, AsWrite
  <2>3. Mirroring!PassOver(p)
    BY <1>1, <1>2, <2>1, <2>2 DEF Mirroring!PassOver
  <2> QED
    BY <1>1, <2>3 DEF Mirroring!MirrorNext
<1> QED
  BY <1>4, <1>5, <1>6 DEF Outcome

\* The pass over an id settles the place where it lives.
LEMMA HandledSettles ==
    ASSUME NEW u \in Uid, handled' = handled \cup {u}, UNCHANGED <<swept, current>>
    PROVE  SettledPlaces' = SettledPlaces \cup {CurrentPlace(u)}
BY DEF SettledPlaces, CurrentPlace

LEMMA SweptSettles ==
    ASSUME NEW e \in Endpoint, NEW u \in Uid, swept' = swept \cup {<<e, u>>},
           UNCHANGED <<handled, current>>
    PROVE  SettledPlaces' = SettledPlaces \cup {<<e, u>>}
BY DEF SettledPlaces, CurrentPlace

-----------------------------------------------------------------------------
\* process_changes.

LEMMA MirrorChange ==
    ASSUME SyncTypeOK, AccuracyInv, NEW u \in Uid, NEW out \in Outcome,
           CreateObject(u, out) \/ UpdateObject(u, out)
    PROVE  Mirroring!MirrorNext
<1> DEFINE obj == pre_rendered[u]
           home == EndpointOf[obj.type]
<1>1. /\ pc = "changes" /\ swept = {} /\ IsCurrent(u) /\ u \notin handled
      /\ UNCHANGED <<source, pc, current, swept>>
      /\ handled' = handled \cup {u}
  BY DEF CreateObject, UpdateObject, ChangeFrame, ChangeIsNext, ToChange, IsSent,
         AccuracyInv, QuietAtFirst
<1>2. obj = current[u] /\ obj \in SourceObject /\ home \in Endpoint /\ obj.json \in Json
  <2>1. obj = current[u] /\ obj \in SourceObject
    BY SourceObjectIsRendered
       DEF CreateObject, UpdateObject, Rendered, SyncTypeOK, AccuracyInv, ListsTyped
  <2>2. obj.type \in Type /\ obj.json \in Json
    BY <2>1
  <2> QED
    BY <2>1, <2>2, SyncAssumption
<1>3. PICK req \in Request :
         /\ Send(req, out)
         /\ req.uid = u /\ req.endpoint = home
         /\ req.json = obj.json /\ req.op # "DELETE"
  BY <1>2, RequestTypes DEF CreateObject, UpdateObject
<1>4. <<home, u>> \notin SettledPlaces
  BY <1>1, <1>2, SettledPlace
<1>5. SettledPlaces' = SettledPlaces \cup {<<home, u>>}
  BY <1>1, <1>2, HandledSettles DEF CurrentPlace
<1>6. RunView[<<home, u>>] = obj.json
  BY <1>1, <1>2, AtPlacesFacts DEF RunView, SyncTypeOK, IsCurrent
<1> HIDE DEF obj
<1> QED
  BY <1>1, <1>3, <1>4, <1>5, <1>6, RequestIsWrite DEF AsWrite

LEMMA MirrorKeep ==
    ASSUME SyncTypeOK, AccuracyInv, NEW u \in Uid, CopyObject(u) \/ SkipUnrendered(u)
    PROVE  Mirroring!MirrorNext
<1>1. /\ pc = "changes" /\ IsCurrent(u)
      /\ UNCHANGED <<source, server, pc, current, swept, late, faults>>
      /\ handled' = handled \cup {u}
  BY DEF CopyObject, SkipUnrendered, ChangeFrame, ChangeIsNext, ToChange, IsSent, senderVars
<1>2. CurrentPlace(u) \in Places
  BY <1>1, SyncAssumption, PlaceFacts DEF CurrentPlace, SyncTypeOK, IsCurrent
<1>3. SettledPlaces' = SettledPlaces \cup {CurrentPlace(u)}
  BY <1>1, HandledSettles
<1>4. UNCHANGED <<AtPlaces(source), ServerPlaces, RunView, LateWrites>>
  BY <1>1 DEF AtPlaces, ServerPlaces, RunView, LateWrites, AsWrite
<1>5. Mirroring!PassOver(CurrentPlace(u))
  BY <1>1, <1>3, <1>4, RunningIsNotIdle DEF Mirroring!PassOver
<1> QED
  BY <1>2, <1>5 DEF Mirroring!MirrorNext

-----------------------------------------------------------------------------
\* process_deletes and process_deletes_per_endpoint.

\* Nothing to be seen where an id that is not current is deleted.
LEMMA MirrorDeletes ==
    ASSUME SyncTypeOK, AccuracyInv, NEW e \in Endpoint, NEW u \in Uid, NEW out \in Outcome,
           ~IsCurrent(u), <<e, u>> \notin swept, pc = "deletes",
           Send([op |-> "DELETE", endpoint |-> e, uid |-> u, json |-> Absent], out),
           swept' = swept \cup {<<e, u>>}, DeleteFrame
    PROVE  Mirroring!MirrorNext
<1> DEFINE req == [op |-> "DELETE", endpoint |-> e, uid |-> u, json |-> Absent]
<1>1. req \in Request
  BY DEF Request
<1>2. UNCHANGED <<source, pc, current, handled>>
  BY DEF DeleteFrame
<1>3. u \notin handled
  BY DEF AccuracyInv, PassRecords
<1>4. <<e, u>> \notin SettledPlaces /\ SettledPlaces' = SettledPlaces \cup {<<e, u>>}
  BY <1>2, <1>3, SettledPlace, SweptSettles
<1>5. RunView[<<e, u>>] = Absent
  BY AtPlacesFacts DEF RunView, SyncTypeOK, IsCurrent
<1>6. req.endpoint = e /\ req.uid = u /\ AsWrite(req).body = Absent /\ Send(req, out)
  BY DEF AsWrite
<1> HIDE DEF req
<1> QED
  BY <1>1, <1>2, <1>4, <1>5, <1>6, RequestIsWrite

LEMMA MirrorDelete ==
    ASSUME TypesFixed, SyncTypeOK, AccuracyInv, NEW u \in Uid, NEW out \in Outcome,
           DeleteObject(u, out)
    PROVE  Mirroring!MirrorNext
<1> DEFINE obj == cached[u]
           home == EndpointOf[obj.type]
<1>1. /\ obj \in RenderedObject /\ obj # Absent
      /\ ~IsCurrentAs(u, obj.type) /\ <<home, u>> \notin swept
  BY DEF DeleteObject, Obsolete, IsObsolete, SyncTypeOK, ObjectList
<1>2. home \in Endpoint
  BY <1>1, SyncAssumption DEF RenderedObject
<1>3. ~IsCurrent(u)
  <2>1. TypedAsSource(obj, u) /\ TypedAsSource(current[u], u)
    BY DEF AccuracyInv, ListsTyped
  <2> QED
    BY <1>1, <2>1 DEF TypedAsSource, TypesFixed, IsCurrent, IsCurrentAs
<1> QED
  BY <1>1, <1>2, <1>3, MirrorDeletes DEF DeleteObject

LEMMA MirrorDeleteStray ==
    ASSUME SyncTypeOK, AccuracyInv, NEW e \in Endpoint, NEW u \in Uid, NEW out \in Outcome,
           DeleteStray(e, u, out)
    PROVE  Mirroring!MirrorNext
<1>1. ~IsCurrent(u) /\ <<e, u>> \notin swept
  BY DEF DeleteStray, Strays
<1> QED
  BY <1>1, MirrorDeletes DEF DeleteStray
-----------------------------------------------------------------------------
\* The start and the end of a run, and the steps between that send nothing.

LEMMA MirrorStart ==
    ASSUME SyncTypeOK, AccuracyInv, NEW r \in Runs, StartRun(r)
    PROVE  Mirroring!Begin
<1>1. /\ UNCHANGED <<source, server, late, faults, handled, swept>>
      /\ pc = "idle" /\ pc' = "read_cache"
      /\ current' = EmptyList \/ current' = source
  BY DEF StartRun
<1>2. handled = {} /\ swept = {}
  BY <1>1 DEF AccuracyInv, QuietAtFirst, BeforeRequests
<1>3. SettledPlaces' = {}
  BY <1>1, <1>2 DEF SettledPlaces
<1>4. RunView' \in {AtPlaces(source), [p \in Places |-> Absent]}
  BY <1>1 DEF RunView, AtPlaces, EmptyList, Places
<1>5. UNCHANGED <<AtPlaces(source), ServerPlaces, LateWrites>>
  BY <1>1 DEF AtPlaces, ServerPlaces, LateWrites, AsWrite
<1> QED
  BY <1>1, <1>3, <1>4, <1>5, RunningIsNotIdle DEF Mirroring!Begin

\* However a run ends, nothing of it is left but what is on the server or on
\* its way there.
LEMMA MirrorEnd ==
    ASSUME SyncTypeOK, pc # "idle", EndRun, UNCHANGED <<source, server, late>>,
           faults' \in {faults, faults + 1}
    PROVE  Mirroring!End
<1>1. SettledPlaces' = {} /\ RunView' = Absent
  BY DEF EndRun, SettledPlaces, RunView
<1>2. UNCHANGED <<AtPlaces(source), ServerPlaces, LateWrites>>
  BY DEF AtPlaces, ServerPlaces, LateWrites, AsWrite
<1> QED
  BY <1>1, <1>2, RunningIsNotIdle DEF Mirroring!End

LEMMA MirrorQuiet ==
    ASSUME SyncTypeOK, AccuracyInv,
           \/ read_cache \/ ThresholdsPass \/ ForceOptions \/ ChangesDone \/ DeletesDone
           \/ \E e \in Endpoint : QueryEndpoint(e)
           \/ RenderAndPreallocate \/ LoadFails
           \/ \E kind \in {"lost"} \cup Damage : CacheFileHarmed(kind)
    PROVE  [Mirroring!MirrorNext]_Mirroring!mirrorVars
<1>1. /\ UNCHANGED <<source, server, current, swept, handled, late>>
      /\ pc = "idle" <=> pc' = "idle"
      /\ faults' = faults \/ faults' = faults + 1
  BY DEF read_cache, ThresholdsPass, ForceOptions, ChangesDone, DeletesDone, QueryEndpoint,
         RenderAndPreallocate, LoadFails, CacheFileHarmed, Fault, senderVars, runVars
<1>2. UNCHANGED <<AtPlaces(source), ServerPlaces, RunView, SettledPlaces, LateWrites>>
  BY <1>1 DEF AtPlaces, ServerPlaces, RunView, SettledPlaces, CurrentPlace, LateWrites, AsWrite
<1>3. CASE faults' = faults
  BY <1>2, <1>3 DEF Mirroring!mirrorVars
<1>4. CASE faults' = faults + 1
  BY <1>2, <1>4 DEF Mirroring!MirrorNext, Mirroring!Disturb
<1> QED
  BY <1>1, <1>3, <1>4

-----------------------------------------------------------------------------
\* Steps of the world.

LEMMA MirrorLate ==
    ASSUME SyncTypeOK, NEW req \in late, LateRequestArrives(req) \/ LateRequestIsLost(req)
    PROVE  Mirroring!MirrorNext
<1>1. /\ req \in Request
      /\ late' = late \ {req}
      /\ UNCHANGED <<source, pc, current, swept, handled, faults>>
  BY DEF LateRequestArrives, LateRequestIsLost, LateArrival, LateLost, runVars,
         SyncTypeOK, SenderTypeOK
<1>2. UNCHANGED <<AtPlaces(source), RunView, SettledPlaces>>
  BY <1>1 DEF AtPlaces, RunView, SettledPlaces, CurrentPlace
<1>3. AsWrite(req) \in LateWrites /\ LateWrites' \in {LateWrites, LateWrites \ {AsWrite(req)}}
  BY <1>1, LateWritesLess
<1>4. CASE server' = server
  <2>1. UNCHANGED ServerPlaces
    BY <1>4 DEF ServerPlaces
  <2>2. Mirroring!Lose(AsWrite(req))
    BY <1>1, <1>2, <1>3, <2>1 DEF Mirroring!Lose
  <2> QED
    BY <1>3, <2>2 DEF Mirroring!MirrorNext
<1>5. CASE server' = Handled(req) /\ Respond(req) = "ok"
  <2>1. AsWrite(req).place = <<req.endpoint, req.uid>>
    BY DEF AsWrite
  <2>2. ServerPlaces' = [ServerPlaces EXCEPT ![AsWrite(req).place] = AsWrite(req).body]
    BY <1>1, <1>5, <2>1, ServerPlacesChange DEF SyncTypeOK
  <2>3. Mirroring!Arrive(AsWrite(req))
    BY <1>1, <1>2, <1>3, <2>2 DEF Mirroring!Arrive
  <2> QED
    BY <1>3, <2>3 DEF Mirroring!MirrorNext
<1>6. server' = server \/ (server' = Handled(req) /\ Respond(req) = "ok")
  BY DEF LateRequestArrives, LateRequestIsLost, LateArrival, LateLost, Handled
<1> QED
  BY <1>4, <1>5, <1>6

LEMMA MirrorOthers ==
    ASSUME SyncTypeOK, NEW u \in Uid, OthersChangeServer(u)
    PROVE  Mirroring!Disturb
<1>1. PICK e \in HomesOf(u) : ServerChangedByOthers(e, u)
  BY DEF OthersChangeServer
<1>2. e \in Endpoint
  BY SyncAssumption DEF HomesOf
<1>3. PICK j \in Json \cup {Absent} : server' = [server EXCEPT ![e] = [@ EXCEPT ![u] = j]]
  BY <1>1 DEF ServerChangedByOthers
<1>4. <<e, u>> \in Places
  BY <1>2, PlaceFacts
<1>5. ServerPlaces' = [ServerPlaces EXCEPT ![<<e, u>>] = j]
  <2>1. \A f \in Endpoint, v \in Uid :
           server'[f][v] = IF f = e /\ v = u THEN j ELSE server[f][v]
    BY <1>2, <1>3 DEF SyncTypeOK, SenderTypeOK
  <2>2. \A p \in Places : /\ p[1] \in Endpoint /\ p[2] \in Uid
                          /\ p = <<e, u>> <=> p[1] = e /\ p[2] = u
    BY DEF Places
  <2> QED
    BY <2>1, <2>2 DEF ServerPlaces
<1>6. UNCHANGED <<source, pc, current, swept, handled, late>> /\ faults' = faults + 1
  BY <1>1 DEF OthersChangeServer, ServerChangedByOthers, Fault, runVars
<1>7. UNCHANGED <<AtPlaces(source), RunView, SettledPlaces, LateWrites>>
  BY <1>6 DEF AtPlaces, RunView, SettledPlaces, CurrentPlace, LateWrites, AsWrite
<1> QED
  BY <1>4, <1>5, <1>6, <1>7 DEF Mirroring!Disturb

LEMMA MirrorSource ==
    ASSUME SyncTypeOK, SourceChanges
    PROVE  Mirroring!Change
<1>1. /\ UNCHANGED <<server, pc, current, swept, handled, late, faults>>
      /\ source' \in SourceStates
  BY DEF SourceChanges, senderVars, runVars
<1>2. AtPlaces(source)' \in {AtPlaces(s) : s \in SourceStates}
  BY <1>1 DEF AtPlaces
<1>3. UNCHANGED <<ServerPlaces, RunView, SettledPlaces, LateWrites>>
  BY <1>1 DEF ServerPlaces, RunView, SettledPlaces, CurrentPlace, LateWrites, AsWrite
<1> QED
  BY <1>1, <1>2, <1>3 DEF Mirroring!Change

-----------------------------------------------------------------------------
LEMMA MirrorInitial == SyncInit => Mirroring!MirrorInit
<1> SUFFICES ASSUME SyncInit PROVE Mirroring!MirrorInit
  OBVIOUS
<1>1. ServerPlaces = [p \in Places |-> Absent]
  BY DEF SyncInit, SenderInit, ServerPlaces, Places
<1>2. RunView = Absent /\ SettledPlaces = {} /\ LateWrites = {} /\ faults = 0
  BY DEF SyncInit, SenderInit, RunView, SettledPlaces, LateWrites
<1>3. AtPlaces(source) \in {AtPlaces(s) : s \in SourceStates}
  BY DEF SyncInit
<1> QED
  BY <1>1, <1>2, <1>3 DEF Mirroring!MirrorInit

LEMMA MirrorStep ==
    ASSUME TypesFixed, SyncTypeOK, AccuracyInv, [SyncNext]_vars
    PROVE  [Mirroring!MirrorNext]_Mirroring!mirrorVars
<1>1. CASE UNCHANGED vars
  BY <1>1, MirrorFrame DEF vars, senderVars, runVars, Mirroring!mirrorVars
<1>2. ASSUME NEW r \in Runs, StartRun(r)
      PROVE  Mirroring!MirrorNext
  BY <1>2, MirrorStart DEF Mirroring!MirrorNext
<1>3. CASE RunStep
  <2>1. CASE ThresholdsStop \/ CacheTruncated \/ FinalizeCacheFile
    BY <2>1, MirrorEnd DEF ThresholdsStop, CacheTruncated, FinalizeCacheFile, EndRunUnsaved,
                           senderVars, Mirroring!MirrorNext
  <2> QED
    BY <1>3, <2>1, MirrorQuiet, MirrorKeep, MirrorChange, MirrorDelete, MirrorDeleteStray
       DEF RunStep
<1>4. CASE RunFails /\ ~LoadFails
  <2>1. /\ pc # "idle" /\ EndRun /\ UNCHANGED <<source, server, late>>
        /\ faults' = faults + 1
    BY <1>4 DEF RunFails, CacheUnreadable, QueryFails, PreallocationFails, FinalizeFails,
                SettingMissing, Crash, EndRunUnsaved, Fault, ChangeIsNext
  <2> QED
    BY <2>1, MirrorEnd DEF Mirroring!MirrorNext
<1>5. CASE WorldStep
  BY <1>5, MirrorSource, MirrorLate, MirrorOthers, MirrorQuiet
     DEF WorldStep, Mirroring!MirrorNext
<1> QED
  BY <1>1, <1>2, <1>3, <1>4, <1>5, MirrorQuiet DEF SyncNext

\* In every behaviour a run writes each place of the server at most once and then
\* to what it has loaded, whatever the cache file says and whatever fails: the
\* comparison, the passes and the rebuild together keep what Mirror promises
\* (perform).  It rests on what AccuracyInv says of the passes.
THEOREM Refinement ==
    ASSUME TypesFixed
    PROVE  SyncSpec => ImplementsMirror
<1>1. SyncInit => Mirroring!MirrorInit
  BY MirrorInitial
<1>2. SyncTypeOK /\ AccuracyInv /\ [SyncNext]_vars => [Mirroring!MirrorNext]_Mirroring!mirrorVars
  BY MirrorStep
<1> QED
  BY <1>1, <1>2, TypeCorrect, AccuracyInvariant, PTL
     DEF SyncSpec, ImplementsMirror, Mirroring!MirrorSpec
=============================================================================
