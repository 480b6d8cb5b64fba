----------------------------- MODULE ScimSyncInv -----------------------------
(***************************************************************************)
(* The inductive invariant behind CacheIsAccurate, in named parts.  TLC    *)
(* checks it on small instances, ScimSyncProofs proves it for all.         *)
(***************************************************************************)
EXTENDS ScimSync

\* An id always comes with the same type.  (Without this the delete pass may
\* remove what the same run has updated: see MCRetype.)
TypesFixed ==
    \A s1, s2 \in SourceStates, u \in Uid :
        s1[u] # Absent /\ s2[u] # Absent => s1[u].type = s2[u].type

\* obj's type is one the data source has for u.
TypedAsSource(obj, u) ==
    obj # Absent => \E s \in SourceStates : s[u] # Absent /\ s[u].type = obj.type

\* The server has obj's body for u, if obj is a real object.
Accurate(obj, u) == Real(obj) => server[EndpointOf[obj.type]][u] = obj.json

Swept(u) == \E e \in Endpoint : <<e, u>> \in swept

BeforeRequests == {"idle", "read_cache", "thresholds", "query", "force", "begin"}
BeforeQuery == {"idle", "read_cache", "thresholds"}

\* All objects in the program's lists come, in the end, from the data source.
ListsTyped ==
    \A u \in Uid :
        /\ TypedAsSource(cacheFile[u], u)
        /\ TypedAsSource(cached[u], u)
        /\ TypedAsSource(current[u], u)
        /\ TypedAsSource(scim_new_cache[u], u)
        /\ pre_rendered[u] \in {current[u], Absent}

\* Nothing is sent, and nothing put in the new cache, until everything is read.
QuietAtFirst ==
    /\ pc \in BeforeRequests =>
           /\ touched = {}
           /\ handled = {}
           /\ scim_new_cache = EmptyList
           /\ pre_rendered = EmptyList
    /\ pc \in BeforeRequests \cup {"changes"} => swept = {}
    /\ pc \in BeforeQuery => new_doubt = doubt
    /\ pc = "query" => run.rebuild

\* How an id gets into the passes' records.
PassRecords ==
    /\ \A u \in handled : IsCurrent(u)
    /\ ~run.rebuild => \A e \in Endpoint, u \in Uid :
           <<e, u>> \in swept => cached[u] # Absent /\ EndpointOf[cached[u].type] = e

\* How an object gets into the new cache.
NewCacheOrigin ==
    \A u \in Uid \ handled :
        scim_new_cache[u] # Absent => ~run.rebuild /\ Swept(u)

\* The cache as read may be relied on for an id until a request is made for it,
\* the new cache from then on.  Rebuilding does not rely on the old cache.
CachedIsAccurate ==
    pc # "idle" /\ pc # "read_cache" /\ ~run.rebuild =>
        \A u \in Uid \ (new_doubt \cup handled) :
            ~Swept(u) => Accurate(cached[u], u)

NewCacheIsAccurate == \A u \in Uid \ new_doubt : Accurate(scim_new_cache[u], u)

AccuracyInv ==
    /\ ListsTyped
    /\ QuietAtFirst
    /\ PassRecords
    /\ NewCacheOrigin
    /\ CachedIsAccurate
    /\ NewCacheIsAccurate
    /\ CacheIsAccurate
=============================================================================
