--------------------------- MODULE ScimCompleteInv ---------------------------
(***************************************************************************)
(* The inductive invariants behind CacheIsComplete and the properties of a *)
(* run that ends well, in named parts, and what they take for granted of   *)
(* the command lines.                                                      *)
(***************************************************************************)
EXTENDS ScimSyncInv

\* Every run sends every type that the data source has objects of.  (An object
\* of another type is left out of the new cache file.)
AllTypesSent ==
    \A s \in SourceStates, u \in Uid, r \in Runs :
        s[u] # Absent => r.order[s[u].type] > 0 /\ s[u].type \notin r.blocked

Repairs(r) == r.rebuild \/ r.force_create # {}

\* Where runs rebuild the cache or are told to create objects again, they do not
\* use the old cache for these; then no object fails to render and none is
\* refused.  (If one were, the new cache would lack what the server has.)
RepairsUndisturbed ==
    (\E r \in Runs : Repairs(r)) =>
        /\ Faults \cap {"render", "error", "refused"} = {}
        /\ "timeout" \in Faults => MaxFaults <= http_max_acceptable_timeouts

-----------------------------------------------------------------------------
\* Where ids are, whatever the command lines.

OnServer(u) == \E e \in Endpoint : Holds(e, u)

Dealt(u) == u \in handled \/ Swept(u)

AfterQuery == {"force", "begin", "changes", "deletes", "finalize"}

\* Nothing is, or will come to be, anywhere but where the data source's type
\* for it lives, and nothing else is in doubt.
AtHome ==
    /\ \A e \in Endpoint, u \in Uid : Holds(e, u) => e \in HomesOf(u)
    /\ \A req \in late : req.endpoint \in HomesOf(req.uid)
    /\ \A e \in Endpoint, u \in Uid : <<e, u>> \in all_scim_objects => e \in HomesOf(u)
    /\ \A u \in doubt \cup new_doubt \cup touched : HomesOf(u) # {}

\* What each phase leaves for the next.
PhasesDone ==
    /\ pc \in BeforeQuery => queried = {} /\ all_scim_objects = {}
    /\ run.rebuild /\ pc \in AfterQuery => queried = Endpoints(OrderedTypes)
    /\ pc \in {"changes", "deletes", "finalize"} /\ (~failures \/ "render" \notin Faults) =>
           \A u \in Uid : IsSent(u) => pre_rendered[u] = current[u]
    /\ pc \in {"deletes", "finalize"} => ToChange = {}
    /\ pc = "finalize" => Obsolete = {} /\ Strays = {}

\* The delete pass is for ids that are gone.
SweptIsGone == \A u \in Uid : Swept(u) => ~IsCurrent(u)

\* A delete that was not answered with success is kept in mind.
SweptIsKept ==
    ~run.rebuild =>
        \A e \in Endpoint, u \in Uid \ new_doubt :
            <<e, u>> \in swept /\ Holds(e, u) => scim_new_cache[u] # Absent

PhaseInv == AtHome /\ PhasesDone /\ SweptIsGone /\ SweptIsKept

-----------------------------------------------------------------------------
\* What has gone well so far in a run in which nothing has gone wrong.

CleanSoFar ==
    ~failures =>
        \A u \in Uid \ new_doubt :
            /\ u \in handled => server[EndpointOf[current[u].type]][u] = current[u].json
            /\ Swept(u) => ~OnServer(u)

\* An id still in doubt is one that the server said it has, not dealt with yet.
RebuildAsks ==
    run.rebuild /\ pc \in {"query"} \cup AfterQuery /\ ~failures =>
        \A u \in new_doubt :
            ~Dealt(u) /\ \A e \in HomesOf(u) \cap queried : <<e, u>> \in all_scim_objects

CleanInv == CleanSoFar /\ RebuildAsks

\* All of the above: what the program's lists and records say of the server at
\* every step of a run, how far the passes have come, and what they have achieved
\* as long as nothing went wrong (perform, from the rendering to the last delete).
RunInv == AccuracyInv /\ PhaseInv /\ CleanInv

-----------------------------------------------------------------------------
\* Nothing on the server is forgotten.

SenderIsPatient ==
    /\ number_of_timeouts <= faults /\ faults <= MaxFaults
    /\ (\E r \in Runs : Repairs(r)) => ~aborted

\* What was there when the server was asked, and has not been dealt with, is known.
QueryKnows ==
    run.rebuild /\ pc \in {"query"} \cup AfterQuery =>
        \A u \in Uid \ new_doubt, e \in queried :
            ~Dealt(u) /\ Holds(e, u) => <<e, u>> \in all_scim_objects

CachedIsComplete ==
    pc \notin {"idle", "read_cache"} /\ ~run.rebuild =>
        \A u \in Uid \ new_doubt :
            ~Dealt(u) /\ OnServer(u) =>
                cached[u] # Absent \/ (u \in run.force_create /\ IsCurrent(u))

NewCacheIsComplete ==
    \A u \in Uid \ new_doubt : Dealt(u) /\ OnServer(u) => scim_new_cache[u] # Absent

\* None of the lists that a run goes by, the old cache, the server's answers and
\* the new cache, has lost an object that the client put on the server, whatever
\* has failed before (process_changes, process_deletes, the four functors).
CompletenessInv ==
    /\ SenderIsPatient
    /\ QueryKnows
    /\ CachedIsComplete
    /\ NewCacheIsComplete
    /\ CacheIsComplete

-----------------------------------------------------------------------------
\* What the status file is made from.

SameKind(obj1, obj2) ==
    (obj1 = Absent <=> obj2 = Absent) /\ (obj1 # Absent => obj1.type = obj2.type)

\* What the run goes by, and reports if it fails, has the objects of the cache
\* file but for those to be created again.
CachedIsCacheFile ==
    pc \notin {"idle", "read_cache"} =>
        \A u \in Uid : SameKind(cached[u], RemoveObjects(cacheFile, Recreated)[u])

-----------------------------------------------------------------------------
\* What keeps references whole.

\* Every state of the source has the objects that its objects refer to, and every
\* run sends the type of an object after the types of those it refers to.
ReferencesInOrder ==
    \A s \in SourceStates, u \in Uid : s[u] # Absent =>
        \A v \in References[s[u].json] :
            /\ s[v] # Absent
            /\ \A r \in Runs : r.order[s[v].type] < r.order[s[u].type]

\* No run rebuilds its cache or is told to create objects again.
NoRepairs == \A r \in Runs : ~Repairs(r)

\* What is on the server came from the data source.
ServerFromSource ==
    \A e \in Endpoint, u \in Uid : Holds(e, u) =>
        \E s \in SourceStates : s[u] # Absent /\ s[u].json = server[e][u]

\* What the lists hold is on the server.
ListsOnServer ==
    \A u \in Uid :
        /\ pc \in BeforeRequests /\ cacheFile[u] # Absent => OnServer(u)
        /\ pc \notin {"idle", "read_cache"} /\ cached[u] # Absent /\ ~Dealt(u) => OnServer(u)
        /\ scim_new_cache[u] # Absent => OnServer(u)

NothingDangles ==
    \A e \in Endpoint, u \in Uid : Holds(e, u) =>
        \A v \in References[server[e][u]] : OnServer(v)

Faultless ==
    /\ ~failures /\ ~aborted /\ late = {} /\ doubt = {} /\ new_doubt = {}
    /\ ServerFromSource
    /\ ListsOnServer
    /\ NothingDangles

\* As long as nothing fails, the server has only what it was sent from the data
\* source, with all that it refers to, and the lists of a run have nothing that
\* the server has not.
FaultlessInv ==
    /\ current = EmptyList \/ current \in SourceStates
    /\ faults = 0 => Faultless

-----------------------------------------------------------------------------
\* What the thresholds are compared with.

\* The thresholds were applied to the cache file that is still there, and to the
\* objects that are still to be sent.
ThresholdsHeld ==
    /\ pc = "thresholds" => cached = cacheFile
    /\ pc \in {"query"} \cup AfterQuery /\ ThresholdsApply =>
           verify_thresholds(cacheFile, current, OrderedTypes)

\* The new cache has what has been through the pass over changes, and only that.
NewCacheIsHandled ==
    ~failures =>
        \A u \in Uid :
            /\ u \in handled => /\ scim_new_cache[u] # Absent
                                /\ scim_new_cache[u].type = current[u].type
            /\ u \notin handled => scim_new_cache[u] = Absent

\* In a run in which nothing went wrong, what the thresholds let through is what
\* the new cache file comes to hold (verify_thresholds, create_func and the rest).
ThresholdsInv == ThresholdsHeld /\ NewCacheIsHandled
=============================================================================
