---------------------------- MODULE RenderedObjects ----------------------------
(***************************************************************************)
(* Objects after rendering, and the lists of them that the cache file, the *)
(* comparison and the new cache are made of (rendered_object,              *)
(* rendered_object_list, dummy_SCIM_object).                               *)
(***************************************************************************)

CONSTANTS
    Uid,         \* object identifiers
    Type,        \* SS12000 types
    Json,        \* rendered JSON bodies
    DummyJson,   \* the body made up by dummy_SCIM_object
    Absent       \* "no object"

\* A rendered object; its id is the key it is listed under.
RenderedObject == [type: Type, json: Json \cup {DummyJson}]

ASSUME RenderedAssumption ==
    /\ DummyJson \notin Json
    /\ Absent \notin Json \cup {DummyJson}
    /\ Absent \notin RenderedObject

\* rendered_object_list: a map from id to object.
ObjectList == [Uid -> RenderedObject \cup {Absent}]
EmptyList == [u \in Uid |-> Absent]

\* Mutated form: the type is lost with the body.
DummyObject_NoType(obj) == [json |-> DummyJson]

\* A body that nothing renders to, so that the object differs from any other.
DummyObject(obj) == [type |-> obj.type, json |-> DummyJson]

\* add_object overwrites what the list had.  Absent: no object, nothing added.
AddObject(list, u, obj) == IF obj = Absent THEN list ELSE [list EXCEPT ![u] = obj]

RemoveObjects(list, uids) == [u \in Uid |-> IF u \in uids THEN Absent ELSE list[u]]
=============================================================================
