------------------------------- MODULE ScimSync -------------------------------
(***************************************************************************)
(* The EGIL SCIM client as a whole: a program started over and over by an  *)
(* operator or a timer.  Each run loads the data source, reads the cache   *)
(* file left by the last completed run, compares the two, sends the        *)
(* difference to the SCIM server one request at a time, and at the very    *)
(* end replaces the cache file (main.cpp run_main, scim.cpp ScimActions).  *)
(*                                                                         *)
(* A run may stop anywhere: an error exit, an exception, a crash.  What    *)
(* survives is the server and the cache file.                              *)
(***************************************************************************)
EXTENDS ScimSender, Thresholds

CONSTANTS
    EndpointOf,          \* [Type -> Endpoint], the <type>-scim-url-endpoint setting
    SourceStates,        \* the contents the data source may have
    References,          \* [Json -> the ids a body refers to]
    Runs,                \* the command lines the program may be started with
    MaxChanges           \* bound: how often the data source changes

\* What the data source has: the body is what the object renders to.
SourceObject == [type: Type, json: Json]

\* order[t] is the position of t in scim-type-send-order, 0 when t is not in
\* it; blocked are the types a post-processing plugin blocks.
CommandLine == [order: [Type -> Nat], blocked: SUBSET Type, rebuild: BOOLEAN,
                skip_load: BOOLEAN, skip_thresholds: BOOLEAN,
                force_update: SUBSET Uid, force_create: SUBSET Uid]

ASSUME SyncAssumption ==
    /\ EndpointOf \in [Type -> Endpoint]
    /\ SourceStates # {}
    /\ SourceStates \subseteq [Uid -> SourceObject \cup {Absent}]
    /\ References \in [Json -> SUBSET Uid]
    /\ Runs # {} /\ Runs \subseteq CommandLine
    /\ MaxChanges \in Nat

VARIABLES
    source,              \* the data source
    changes,             \* how often it has changed (bounds the model)
    cacheFile,           \* the objects in the cache file, as far as it can be read
    cacheFileState,
    statusFile,          \* the objects that the status file gives the numbers of
    pc,                  \* how far the run has come, "idle" between runs
    run,                 \* the run's command line
    current,             \* the objects loaded, data_server
    cached,              \* the cache as read, after the force options
    all_scim_objects,    \* <<endpoint, uid>> pairs the server says it has
    queried,             \* the endpoints asked so far
    pre_rendered,        \* the objects of current that rendered
    scim_new_cache,
    handled,             \* ids process_changes has been through
    swept,               \* <<endpoint, uid>> pairs the delete pass has been through
    \* History variables.  They record what happened to requests, and never
    \* decide what the program does.
    doubt,               \* ids whose state on the server the cache file may not
                         \* tell: a request whose result was never learned or
                         \* never saved, or a change made by somebody else
    new_doubt,           \* the same, for scim_new_cache
    touched,             \* ids this run has changed on the server
    failures             \* something went wrong for some object in this run, or
                         \* somebody else changed the server during it

runVars == <<pc, run, current, cached, all_scim_objects, queried, pre_rendered,
             scim_new_cache, handled, swept>>
history == <<doubt, new_doubt, touched, failures>>
vars == <<senderVars, source, changes, cacheFile, cacheFileState, statusFile, runVars,
          history>>

\* What may be wrong with a cache file: its end is missing, or its first bytes
\* are not what they were.
Damage == {"truncated", "garbled"}

SyncTypeOK ==
    /\ SenderTypeOK
    /\ source \in SourceStates
    /\ changes \in Nat
    /\ cacheFile \in ObjectList
    /\ cacheFileState \in {"none", "good"} \cup Damage
    /\ statusFile \in ObjectList
    /\ pc \in {"idle", "read_cache", "thresholds", "query", "force", "begin",
               "changes", "deletes", "finalize"}
    /\ run \in Runs
    /\ current \in [Uid -> SourceObject \cup {Absent}]
    /\ cached \in ObjectList
    /\ all_scim_objects \subseteq Endpoint \X Uid
    /\ queried \subseteq Endpoint
    /\ pre_rendered \in [Uid -> SourceObject \cup {Absent}]
    /\ scim_new_cache \in ObjectList
    /\ handled \subseteq Uid
    /\ swept \subseteq Endpoint \X Uid
    /\ doubt \subseteq Uid
    /\ new_doubt \subseteq Uid
    /\ touched \subseteq Uid
    /\ failures \in BOOLEAN

-----------------------------------------------------------------------------
\* The cache after --force-update and --force-create.

\* make_dirty: the listed objects get a body nothing renders to.
MakeDirty(list, uids) ==
    [u \in Uid |-> IF u \in uids /\ list[u] # Absent THEN DummyObject(list[u]) ELSE list[u]]

-----------------------------------------------------------------------------
\* What a run is about.

\* The types in the send order, and those that no plugin blocks (filter_types).
OrderedTypes == {t \in Type : run.order[t] > 0}
SentTypes == OrderedTypes \ run.blocked
Endpoints(types) == {EndpointOf[t] : t \in types}

IsCurrent(u) == current[u] # Absent
IsSent(u) == IsCurrent(u) /\ current[u].type \in SentTypes
\* current.get_by_type(t)->get_object(u)
IsCurrentAs(u, t) == IsCurrent(u) /\ current[u].type = t

\* The endpoints an id can live at.
HomesOf(u) == {EndpointOf[s[u].type] : s \in {x \in SourceStates : x[u] # Absent}}

-----------------------------------------------------------------------------
\* Steps of the world around the program.

\* The command line between runs: any one, since nothing reads it then.
NoRun == CHOOSE r \in Runs : TRUE

SyncInit ==
    /\ SenderInit
    /\ source \in SourceStates
    /\ changes = 0
    /\ cacheFile = EmptyList
    /\ cacheFileState = "none"
    /\ statusFile = EmptyList
    /\ pc = "idle"
    /\ run = NoRun
    /\ current = EmptyList
    /\ cached = EmptyList
    /\ all_scim_objects = {}
    /\ queried = {}
    /\ pre_rendered = EmptyList
    /\ scim_new_cache = EmptyList
    /\ handled = {}
    /\ swept = {}
    /\ doubt = {}
    /\ new_doubt = {}
    /\ touched = {}
    /\ failures = FALSE

\* A run reads the source once, when it loads, so a change during a run is
\* the same as a change right after it.
SourceChanges ==
    /\ pc = "idle"
    /\ changes < MaxChanges
    /\ changes' = changes + 1
    /\ source' \in SourceStates \ {source}
    /\ UNCHANGED <<senderVars, cacheFile, cacheFileState, statusFile, runVars, history>>

AddDoubt(u) ==
    /\ doubt' = doubt \cup {u}
    /\ new_doubt' = new_doubt \cup {u}
    /\ failures' = (failures \/ pc # "idle")
    /\ UNCHANGED touched

LateRequestArrives(req) ==
    /\ LateArrival(req)
    /\ AddDoubt(req.uid)
    /\ UNCHANGED <<source, changes, cacheFile, cacheFileState, statusFile, runVars>>

LateRequestIsLost(req) ==
    /\ LateLost(req)
    /\ UNCHANGED <<source, changes, cacheFile, cacheFileState, statusFile, runVars, history>>

OthersChangeServer(u) ==
    /\ \E e \in HomesOf(u) : ServerChangedByOthers(e, u)
    /\ AddDoubt(u)
    /\ UNCHANGED <<source, changes, cacheFile, cacheFileState, statusFile, runVars>>

\* The cache file is lost or damaged between two runs.  (In a run it would be
\* the same as after it, since a run reads it once and replaces it whole.)
CacheFileHarmed(kind) ==
    /\ pc = "idle"
    /\ Fault(kind)
    /\ cacheFileState = "good"
    /\ cacheFileState' = IF kind = "lost" THEN "none" ELSE kind
    /\ cacheFile' = EmptyList
    /\ doubt' = doubt \cup {u \in Uid : cacheFile[u] # Absent}
    /\ new_doubt' = doubt'
    /\ UNCHANGED <<server, late, number_of_timeouts, aborted, source, changes, statusFile,
                   runVars, touched, failures>>

-----------------------------------------------------------------------------
\* The end of a run.

\* The process is gone and its memory with it.
EndRun ==
    /\ pc' = "idle"
    /\ current' = EmptyList
    /\ cached' = EmptyList
    /\ all_scim_objects' = {}
    /\ queried' = {}
    /\ pre_rendered' = EmptyList
    /\ scim_new_cache' = EmptyList
    /\ handled' = {}
    /\ swept' = {}
    /\ touched' = {}
    /\ failures' = FALSE
    /\ run' = NoRun

\* The run ends without a new cache file: whatever it did on the server is
\* not in the old one.
EndRunUnsaved ==
    /\ EndRun
    /\ doubt' = doubt \cup touched
    /\ new_doubt' = doubt \cup touched
    /\ UNCHANGED <<source, changes, cacheFile, cacheFileState>>

\* read_cache returns nullptr: the file cannot be opened or its lock not be had.
CacheUnreadable ==
    /\ pc = "read_cache"
    /\ Fault("cache_unreadable")
    /\ EndRunUnsaved
    /\ statusFile' = EmptyList
    /\ UNCHANGED <<server, late, number_of_timeouts, aborted>>

QueryFails ==
    /\ pc = "query"
    /\ \E kind \in {"error", "timeout", "refused", "broken"} : Fault(kind)
    /\ EndRunUnsaved
    /\ statusFile' = cached
    /\ UNCHANGED <<server, late, number_of_timeouts, aborted>>

\* begin_rendered_cache_file cannot open or fill the temporary file.
PreallocationFails ==
    /\ pc = "begin"
    /\ Fault("disk")
    /\ EndRunUnsaved
    /\ statusFile' = cached
    /\ UNCHANGED <<server, late, number_of_timeouts, aborted>>

\* Mutated form: the status is taken from the cache that could not be saved.
FinalizeFails_NewStatus ==
    /\ pc = "finalize"
    /\ Fault("disk")
    /\ EndRunUnsaved
    /\ statusFile' = scim_new_cache
    /\ UNCHANGED <<server, late, number_of_timeouts, aborted>>

\* save or finalize_rendered_cache_file throws: perform returns -1.
FinalizeFails ==
    /\ pc = "finalize"
    /\ Fault("disk")
    /\ EndRunUnsaved
    /\ statusFile' = cached
    /\ UNCHANGED <<server, late, number_of_timeouts, aborted>>

\* The process dies, anywhere in a run.
Crash ==
    /\ pc # "idle"
    /\ Fault("crash")
    /\ EndRunUnsaved
    /\ UNCHANGED statusFile
    /\ UNCHANGED <<server, late, number_of_timeouts, aborted>>

-----------------------------------------------------------------------------
\* run_main up to perform.

\* The data source cannot be read: the run ends with nothing done, but its
\* status file says that there are no objects.
LoadFails ==
    /\ pc = "idle"
    /\ Fault("load")
    /\ statusFile' = EmptyList
    /\ UNCHANGED <<server, late, number_of_timeouts, aborted, source, changes, cacheFile,
                   cacheFileState, runVars, history>>

\* The program is started and loads the data source.
StartRun(r) ==
    /\ pc = "idle"
    /\ pc' = "read_cache"
    /\ run' = r
    /\ current' = IF r.skip_load THEN EmptyList ELSE source
    /\ send_init
    /\ UNCHANGED <<server, late, faults, source, changes, cacheFile, cacheFileState, statusFile,
                   cached, all_scim_objects, queried, pre_rendered, scim_new_cache,
                   handled, swept, history>>

\* A file with the right magic number that ends too early cannot be read.
CacheTruncated ==
    /\ pc = "read_cache"
    /\ cacheFileState = "truncated"
    /\ EndRunUnsaved
    /\ statusFile' = EmptyList
    /\ UNCHANGED senderVars

\* No file reads as an empty list, and so does one that does not start with the
\* magic number: it is taken for a file of the old format, whose reader gives
\* up with an empty list.
read_cache ==
    /\ pc = "read_cache"
    /\ cacheFileState # "truncated"
    /\ pc' = "thresholds"
    /\ cached' = cacheFile
    /\ UNCHANGED <<senderVars, source, changes, cacheFile, cacheFileState, statusFile, run,
                   current, all_scim_objects, queried, pre_rendered, scim_new_cache,
                   handled, swept, history>>

ThresholdsApply == cacheFileState # "none" /\ ~run.skip_load /\ ~run.skip_thresholds

ThresholdsPass ==
    /\ pc = "thresholds"
    /\ ThresholdsApply => verify_thresholds(cached, current, OrderedTypes)
    /\ pc' = IF run.rebuild /\ OrderedTypes # {} THEN "query" ELSE "force"
    /\ UNCHANGED <<senderVars, source, changes, cacheFile, cacheFileState, statusFile, run,
                   current, cached, all_scim_objects, queried, pre_rendered,
                   scim_new_cache, handled, swept, history>>

ThresholdsStop ==
    /\ pc = "thresholds"
    /\ ThresholdsApply
    /\ ~verify_thresholds(cached, current, OrderedTypes)
    /\ EndRunUnsaved
    /\ statusFile' = cached
    /\ UNCHANGED senderVars

\* Mutated form: the endpoints after the first are not asked.
QueryEndpoint_OnlyOne(e) ==
    /\ pc = "query"
    /\ e \in Endpoints(OrderedTypes) \ queried
    /\ all_scim_objects' = all_scim_objects \cup {<<e, u>> : u \in {v \in Uid : Holds(e, v)}}
    /\ queried' = queried \cup {e}
    /\ new_doubt' = {u \in new_doubt : Holds(e, u) \/ ~(HomesOf(u) \subseteq {e})}
    /\ pc' = "force"
    /\ UNCHANGED <<senderVars, source, changes, cacheFile, cacheFileState, statusFile, run,
                   current, cached, pre_rendered, scim_new_cache, handled, swept,
                   doubt, touched, failures>>

\* get_all_objects_from_scim_server, one endpoint at a time.  An id that has
\* no other home and is not there is no longer in doubt: the server said so.
QueryEndpoint(e) ==
    /\ pc = "query"
    /\ e \in Endpoints(OrderedTypes) \ queried
    /\ all_scim_objects' = all_scim_objects \cup {<<e, u>> : u \in {v \in Uid : Holds(e, v)}}
    /\ queried' = queried \cup {e}
    /\ new_doubt' = {u \in new_doubt : Holds(e, u) \/ ~(HomesOf(u) \subseteq {e})}
    /\ pc' = IF queried' = Endpoints(OrderedTypes) THEN "force" ELSE "query"
    /\ UNCHANGED <<senderVars, source, changes, cacheFile, cacheFileState, statusFile, run,
                   current, cached, pre_rendered, scim_new_cache, handled, swept,
                   doubt, touched, failures>>

ForceOptions ==
    /\ pc = "force"
    /\ pc' = "begin"
    /\ cached' = RemoveObjects(MakeDirty(cached, run.force_update),
                               {u \in run.force_create : IsCurrent(u)})
    /\ UNCHANGED <<senderVars, source, changes, cacheFile, cacheFileState, statusFile, run,
                   current, all_scim_objects, queried, pre_rendered, scim_new_cache,
                   handled, swept, history>>

-----------------------------------------------------------------------------
\* perform: rendering.

\* Every current object of a type to send is rendered before anything is
\* sent; one that fails is left out.  Then the temporary cache file is opened
\* and filled to the size the new cache may need.
RenderAndPreallocate ==
    /\ pc = "begin"
    /\ pc' = "changes"
    /\ \/ /\ pre_rendered' = [u \in Uid |-> IF IsSent(u) THEN current[u] ELSE Absent]
          /\ UNCHANGED <<faults, failures>>
       \/ /\ Fault("render")
          /\ \E failed \in {u \in Uid : IsSent(u)} :
                 pre_rendered' = [u \in Uid |-> IF IsSent(u) /\ u # failed
                                                THEN current[u] ELSE Absent]
          /\ failures' = TRUE
    /\ UNCHANGED <<server, late, number_of_timeouts, aborted, source, changes,
                   cacheFile, cacheFileState, statusFile, run, current, cached,
                   all_scim_objects, queried, scim_new_cache, handled, swept,
                   doubt, new_doubt, touched>>

-----------------------------------------------------------------------------
\* perform: process_changes, for each type in send order.

ToChange == {u \in Uid : IsSent(u)} \ handled

\* Mutated form: the ids go in any order, whatever their types.
ChangeIsNext_AnyType(u) == pc = "changes" /\ u \in ToChange

\* The ids of one type go in any order; the types in send order.
ChangeIsNext(u) ==
    /\ pc = "changes"
    /\ u \in ToChange
    /\ \A v \in ToChange : run.order[current[u].type] <= run.order[current[v].type]

Rendered(u) == pre_rendered[u] # Absent

KnownToServer(u) == \E e \in Endpoint : <<e, u>> \in all_scim_objects

IsCreate(u) == IF run.rebuild THEN ~KnownToServer(u) ELSE cached[u] = Absent

\* Mutated form: any object of the right type counts as unchanged.
IsCopy_SameType(u) ==
    /\ ~IsCreate(u)
    /\ ~run.rebuild
    /\ Rendered(u) => pre_rendered[u].type = cached[u].type

\* Mutated form: a cached object that rendered is never sent again.
IsCopy_NeverUpdates(u) == ~IsCreate(u) /\ ~run.rebuild

IsCopy(u) ==
    /\ ~IsCreate(u)
    /\ ~run.rebuild
    /\ Rendered(u) => pre_rendered[u] = cached[u]

IsUpdate(u) == ~IsCreate(u) /\ ~IsCopy(u)

\* What create_func, update_func and delete_func put in the new cache.

\* Mutated form: a create the server refuses as a conflict is not cached.
AfterCreate_NoConflict(obj, out) == IF out = "ok" THEN obj ELSE Absent

\* Mutated form: a conflict is taken for success.
AfterCreate_ConflictIsOk(obj, out) == IF out \in {"ok", "conflict"} THEN obj ELSE Absent

AfterCreate(obj, out) ==
    CASE out = "ok"       -> obj
      [] out = "conflict" -> DummyObject(obj)
      [] OTHER            -> Absent

\* Mutated form: a failed update is cached as if it had been made.
AfterUpdate_AsIfSent(obj, out) == IF out = "missing" THEN Absent ELSE obj

\* Mutated form: an object that could not be updated is not cached.
AfterUpdate_Forgets(obj, out) == IF out = "ok" THEN obj ELSE Absent

AfterUpdate(obj, out) ==
    CASE out = "ok"      -> obj
      [] out = "missing" -> Absent
      [] OTHER           -> DummyObject(obj)

\* Mutated form: a delete is tried once and then forgotten.
AfterDelete_Forgets(obj, out) == Absent

\* Mutated form: an object the server does not have is deleted again.
AfterDelete_KeepsMissing(obj, out) == IF out = "ok" THEN Absent ELSE obj

AfterDelete(obj, out) == IF out \in {"ok", "missing"} THEN Absent ELSE obj

\* The history of one request for u.
RecordOutcome(u, out) ==
    /\ touched' = IF out = "ok" \/ Unknown(out) THEN touched \cup {u} ELSE touched
    /\ new_doubt' = CASE Definite(out) -> new_doubt \ {u}
                      [] Unknown(out)  -> new_doubt \cup {u}
                      [] OTHER         -> new_doubt
    /\ failures' = (failures \/ out # "ok")
    /\ UNCHANGED doubt

\* What process_changes leaves alone.
ChangeFrame ==
    UNCHANGED <<source, changes, cacheFile, cacheFileState, statusFile, pc, run, current, cached,
                all_scim_objects, queried, pre_rendered, swept>>

CopyObject(u) ==
    /\ ChangeIsNext(u)
    /\ IsCopy(u)
    /\ scim_new_cache' = AddObject(scim_new_cache, u, cached[u])
    /\ handled' = handled \cup {u}
    /\ ChangeFrame
    /\ UNCHANGED <<senderVars, history>>

\* Nothing to send: the object did not render, and there is no copy to keep
\* (a create) or none is looked at (an update when rebuilding the cache).
SkipUnrendered(u) ==
    /\ ChangeIsNext(u)
    /\ ~IsCopy(u)
    /\ ~Rendered(u)
    /\ handled' = handled \cup {u}
    /\ ChangeFrame
    /\ UNCHANGED <<senderVars, scim_new_cache, history>>

CreateObject(u, out) ==
    LET obj == pre_rendered[u]
    IN  /\ ChangeIsNext(u)
        /\ IsCreate(u)
        /\ Rendered(u)
        /\ Send([op |-> "POST", endpoint |-> EndpointOf[obj.type], uid |-> u,
                 json |-> obj.json], out)
        /\ scim_new_cache' = AddObject(scim_new_cache, u, AfterCreate(obj, out))
        /\ handled' = handled \cup {u}
        /\ RecordOutcome(u, out)
        /\ ChangeFrame

UpdateObject(u, out) ==
    LET obj == pre_rendered[u]
    IN  /\ ChangeIsNext(u)
        /\ IsUpdate(u)
        /\ Rendered(u)
        /\ Send([op |-> "PUT", endpoint |-> EndpointOf[obj.type], uid |-> u,
                 json |-> obj.json], out)
        /\ scim_new_cache' = AddObject(scim_new_cache, u, AfterUpdate(obj, out))
        /\ handled' = handled \cup {u}
        /\ RecordOutcome(u, out)
        /\ ChangeFrame

ChangesDone ==
    /\ pc = "changes"
    /\ ToChange = {}
    /\ pc' = "deletes"
    /\ UNCHANGED <<senderVars, source, changes, cacheFile, cacheFileState, statusFile, run,
                   current, cached, all_scim_objects, queried, pre_rendered,
                   scim_new_cache, handled, swept, history>>

-----------------------------------------------------------------------------
\* perform: the delete pass, for each type in reversed send order.

DeleteFrame ==
    UNCHANGED <<source, changes, cacheFile, cacheFileState, statusFile, pc, run, current, cached,
                all_scim_objects, queried, pre_rendered, handled>>

\* Mutated form: compared with the objects that rendered.
IsObsolete_NotRendered(u) ==
    /\ cached[u] # Absent
    /\ cached[u].type \in SentTypes
    /\ ~Rendered(u)
    /\ <<EndpointOf[cached[u].type], u>> \notin swept

\* process_deletes: cached objects of a sent type which the list of current
\* objects of that type does not have.
IsObsolete(u) ==
    /\ cached[u] # Absent
    /\ cached[u].type \in SentTypes
    /\ ~IsCurrentAs(u, cached[u].type)
    /\ <<EndpointOf[cached[u].type], u>> \notin swept

Obsolete == IF run.rebuild THEN {} ELSE {u \in Uid : IsObsolete(u)}

DeleteObject(u, out) ==
    LET obj == cached[u]
        home == EndpointOf[obj.type]
    IN  /\ pc = "deletes"
        /\ u \in Obsolete
        /\ \A v \in Obsolete : run.order[cached[v].type] <= run.order[obj.type]
        /\ Send([op |-> "DELETE", endpoint |-> home, uid |-> u, json |-> Absent], out)
        /\ scim_new_cache' = AddObject(scim_new_cache, u, AfterDelete(obj, out))
        /\ swept' = swept \cup {<<home, u>>}
        /\ RecordOutcome(u, out)
        /\ DeleteFrame

\* process_deletes_per_endpoint, when rebuilding the cache: objects the server
\* has at an endpoint of a sent type and no current object has the id of.
Strays ==
    IF run.rebuild
    THEN {ref \in all_scim_objects \ swept :
             ref[1] \in Endpoints(SentTypes) /\ ~IsCurrent(ref[2])}
    ELSE {}

\* An endpoint's turn comes with the first of its types, from the last sent.
ComesBefore(e1, e2) ==
    \E t1 \in SentTypes : /\ EndpointOf[t1] = e1
                          /\ \A t2 \in SentTypes : EndpointOf[t2] = e2 => run.order[t2] < run.order[t1]

DeleteStray(e, u, out) ==
    /\ pc = "deletes"
    /\ <<e, u>> \in Strays
    /\ \A ref \in Strays : ~ComesBefore(ref[1], e)
    /\ Send([op |-> "DELETE", endpoint |-> e, uid |-> u, json |-> Absent], out)
    /\ swept' = swept \cup {<<e, u>>}
    /\ RecordOutcome(u, out)
    /\ UNCHANGED scim_new_cache
    /\ DeleteFrame

DeletesDone ==
    /\ pc = "deletes"
    /\ Obsolete = {}
    /\ Strays = {}
    /\ pc' = "finalize"
    /\ UNCHANGED <<senderVars, source, changes, cacheFile, cacheFileState, statusFile, run,
                   current, cached, all_scim_objects, queried, pre_rendered,
                   scim_new_cache, handled, swept, history>>

\* save and finalize_rendered_cache_file: the rename replaces the cache file.
FinalizeCacheFile ==
    /\ pc = "finalize"
    /\ cacheFile' = scim_new_cache
    /\ cacheFileState' = "good"
    /\ statusFile' = scim_new_cache
    /\ doubt' = new_doubt
    /\ EndRun
    /\ UNCHANGED <<senderVars, source, changes, new_doubt>>

\* A setting that a type needs, its template or its endpoint, turns out not to
\* be in the configuration: config_file::get throws a string, which leaves
\* perform and is reported by run_main, which then goes on as if all were done.
SettingMissing ==
    /\ \/ pc = "begin" /\ \E u \in Uid : IsSent(u)
       \/ \E u \in Uid : ChangeIsNext(u) /\ Rendered(u) /\ ~IsCopy(u)
       \/ pc = "deletes" /\ Obsolete # {}
    /\ Fault("setting")
    /\ EndRunUnsaved
    /\ statusFile' = scim_new_cache
    /\ UNCHANGED <<server, late, number_of_timeouts, aborted>>

-----------------------------------------------------------------------------

\* What the program does of itself.
RunStep ==
    \/ read_cache
    \/ CacheTruncated
    \/ ThresholdsPass
    \/ ThresholdsStop
    \/ \E e \in Endpoint : QueryEndpoint(e)
    \/ ForceOptions
    \/ RenderAndPreallocate
    \/ \E u \in Uid : CopyObject(u)
    \/ \E u \in Uid : SkipUnrendered(u)
    \/ \E u \in Uid, out \in Outcome : CreateObject(u, out)
    \/ \E u \in Uid, out \in Outcome : UpdateObject(u, out)
    \/ ChangesDone
    \/ \E u \in Uid, out \in Outcome : DeleteObject(u, out)
    \/ \E e \in Endpoint, u \in Uid, out \in Outcome : DeleteStray(e, u, out)
    \/ DeletesDone
    \/ FinalizeCacheFile

RunFails ==
    \/ LoadFails
    \/ CacheUnreadable
    \/ QueryFails
    \/ PreallocationFails
    \/ FinalizeFails
    \/ SettingMissing
    \/ Crash

WorldStep ==
    \/ SourceChanges
    \/ \E req \in late : LateRequestArrives(req)
    \/ \E req \in late : LateRequestIsLost(req)
    \/ \E u \in Uid : OthersChangeServer(u)
    \/ \E kind \in {"lost"} \cup Damage : CacheFileHarmed(kind)

SyncNext ==
    \/ \E r \in Runs : StartRun(r)
    \/ RunStep
    \/ RunFails
    \/ WorldStep

SyncSpec == SyncInit /\ [][SyncNext]_vars

\* Runs keep being started (a timer starts the program) and a run that is
\* not stopped goes on to its end: it is one thread that waits for nothing but
\* the answer to its own request, which curl bounds by a timeout.
SyncFairness ==
    /\ WF_vars(\E r \in Runs : StartRun(r))
    /\ WF_vars(RunStep)

FairSyncSpec == SyncSpec /\ SyncFairness

-----------------------------------------------------------------------------
\* Properties.

Real(obj) == obj # Absent /\ obj.json # DummyJson

\* What the cache file says of an object it holds for real is what the server
\* has, except for an object in doubt or one this run has touched.  The next run
\* sends nothing for an object that equals its cached form, so a wrong entry
\* would stay wrong.
CacheIsAccurate ==
    \A u \in Uid \ (doubt \cup touched) :
        Real(cacheFile[u]) =>
            server[EndpointOf[cacheFile[u].type]][u] = cacheFile[u].json

\* Whatever this client has put on the server is in the cache file, at the
\* endpoint where it is.  An object missing there is never deleted.
CacheIsComplete ==
    \A u \in Uid \ (doubt \cup touched), e \in Endpoint :
        Holds(e, u) => cacheFile[u] # Absent /\ EndpointOf[cacheFile[u].type] = e

\* A run in which nothing went wrong leaves the server with exactly the
\* current objects of the types it sends, whatever earlier runs, crashes and
\* timeouts left behind; only ids in doubt are excused.
Mirrored(u) ==
    \A e \in Endpoints(SentTypes) :
        server[e][u] = IF IsCurrent(u) /\ EndpointOf[current[u].type] = e
                       THEN current[u].json ELSE Absent

CleanRunMirrors ==
    [][FinalizeCacheFile /\ ~failures =>
          \A u \in Uid \ new_doubt : (IsCurrent(u) => IsSent(u)) => Mirrored(u)]_vars

\* A DELETE is sent only for an object that is not in current: "Performs
\* 'delete_func' on objects in 'cache' but not in 'current'" (process_deletes).
DeletesOnlyGone ==
    [][\A u \in Uid, out \in Outcome : DeleteObject(u, out) => ~IsCurrent(u)]_vars

\* An object that left the data source and that the server still has after the
\* run stays in the cache file, for the next run to delete: "in case we fail
\* to delete them we also need to keep them in the cache" (estimate_objects).
FailedDeletesAreKept ==
    [][FinalizeCacheFile =>
          \A u \in Uid \ new_doubt :
              /\ cached[u] # Absent /\ cached[u].type \in SentTypes
              /\ ~IsCurrent(u)
              /\ Holds(EndpointOf[cached[u].type], u)
              => cacheFile'[u] # Absent]_vars

Count(list, t) == Cardinality({u \in Uid : list[u] # Absent /\ list[u].type = t})

\* The objects that --force-create has taken out of the cache as it was read.
Recreated ==
    IF pc \in {"begin", "changes", "deletes", "finalize"}
    THEN {u \in run.force_create : IsCurrent(u)} ELSE {}

\* Whatever a run that has read the cache comes to, short of being killed, the
\* status file gives the numbers of the objects in the cache file as the run
\* leaves it: "Until we have managed to create a new cache, use the historical
\* information for the status file" (run_main).  But for two cases: a run that
\* fails leaves out the objects of --force-create, because the status shares its
\* list with the cache they are taken from, and one that lacks a setting reports
\* a cache that it never saved.
StatusTellsCache ==
    [][pc \notin {"idle", "read_cache"} /\ pc' = "idle" /\ ~Crash /\ ~SettingMissing =>
          LET reported == IF FinalizeCacheFile THEN cacheFile' ELSE RemoveObjects(cacheFile', Recreated)
          IN  \A t \in Type : Count(statusFile', t) = Count(reported, t)]_vars

\* After a rebuild in which nothing went wrong the cache file can be relied on
\* for every id, whatever had happened to the old one.
RebuildSettles ==
    [][FinalizeCacheFile /\ run.rebuild /\ ~failures => new_doubt = {}]_vars

\* "if the cache file is lost or corrupted [...] you can ask the client to
\* rebuild the cache file" (USAGE.md): rebuilding gets rid of a corrupt file.
RebuildReplacesCorrupt == cacheFileState = "truncated" ~> cacheFileState = "good"

\* Thresholds do what they are for: a run they apply to, in which nothing went
\* wrong, changes the number of cached objects of a type by no more than the
\* type's absolute threshold, and by no more than its relative threshold's share
\* of the old number.
ThresholdBoundsChange ==
    [][FinalizeCacheFile /\ ~failures /\ ThresholdsApply =>
          \A t \in OrderedTypes :
              LET limit == get_threshold(absolute_threshold, t)
                  share == get_threshold(relative_threshold, t)
                  old == Count(cacheFile, t)
                  new == Count(cacheFile', t)
              IN  /\ limit # NoThreshold => old - new <= limit /\ new - old <= limit
                  /\ share # NoThreshold => /\ 100 * (old - new) <= share * old
                                            /\ 100 * (new - old) <= share * old]_vars

\* As long as nothing fails, every object on the server refers only to objects
\* the server has, after every single request: the types are sent in an order
\* in which an object comes after those it refers to, changes go before
\* deletes, and deletes go in the opposite order.
ReferencesResolve ==
    faults = 0 =>
        \A e \in Endpoint, u \in Uid :
            Holds(e, u) => \A v \in References[server[e][u]] : \E f \in Endpoint : Holds(f, v)

\* In the end the server agrees with the data source about every object that
\* is not in doubt.
Agrees(u) ==
    \A e \in Endpoint :
        server[e][u] = IF source[u] # Absent /\ EndpointOf[source[u].type] = e
                       THEN source[u].json ELSE Absent

EventuallyAgrees == <>[](\A u \in Uid \ doubt : Agrees(u))

\* In the end the cache file holds the data source's objects, all of them sent:
\* a create, update or delete that timed out, failed or was cut short by a
\* crash is repeated by later runs until it is answered.
CacheConverges == <>[](cacheFile = source)
=============================================================================
