------------------------------ MODULE ScimQuery ------------------------------
(***************************************************************************)
(* Asking an endpoint for all that it has, page by page                    *)
(* (simplescim_query_impl), while others create and delete objects there.  *)
(* --rebuild-cache takes what is found for all there is.                   *)
(***************************************************************************)
EXTENDS Naturals, Sequences, SequencesExt

CONSTANTS
    Object,          \* objects that can be at the endpoint
    PageSizes,       \* how many resources the server may put in a page
    MaxListed,       \* bound: how many objects the endpoint has at first
    MaxChanges       \* bound: how often others change the endpoint

ASSUME QueryAssumption ==
    PageSizes \subseteq Nat \ {0} /\ PageSizes # {} /\ MaxListed \in Nat /\ MaxChanges \in Nat

VARIABLES
    query,           \* "asking", "done" or "failed"
    listed,          \* the objects at the endpoint, in the server's order
    resources,       \* what has been found
    start_index,     \* of the next page
    changes,         \* changes by others so far (bounds the model)
    \* History variables, read by the properties only.
    present,         \* objects that have been there all the time
    deleted          \* something was deleted meanwhile

queryVars == <<query, listed, resources, start_index, changes, present, deleted>>

Asking == query = "asking"

-----------------------------------------------------------------------------
\* The server, external.

\* totalResults and Resources of an answer: a page has one of the sizes, or what
\* is left.
Answers ==
    {[totalResults |-> Len(listed),
      Resources |-> SubSeq(listed, start_index,
                           IF start_index + size - 1 < Len(listed) THEN start_index + size - 1
                           ELSE Len(listed))] : size \in PageSizes}

OthersCreate ==
    \E o \in Object \ Range(listed), n \in 1..Len(listed) + 1 :
        /\ Asking
        /\ changes < MaxChanges
        /\ changes' = changes + 1
        /\ listed' = InsertAt(listed, n, o)
        /\ UNCHANGED <<query, resources, start_index, present, deleted>>

OthersDelete ==
    \E o \in Range(listed) :
        /\ Asking
        /\ changes < MaxChanges
        /\ changes' = changes + 1
        /\ listed' = Remove(listed, o)
        /\ present' = present \ {o}
        /\ deleted' = TRUE
        /\ UNCHANGED <<query, resources, start_index>>

-----------------------------------------------------------------------------
\* simplescim_query_impl, which calls itself for the next page.

NothingThere ==
    /\ Asking
    /\ Len(listed) = 0
    /\ query' = "done"
    /\ UNCHANGED <<listed, resources, start_index, changes, present, deleted>>

NextPage(page_size) == start_index' = start_index + page_size

\* Mutated form: the last object is not asked for if it would be alone on its page.
Enough_OneShort(found, total) == Len(found) + 1 >= total

Enough(found, total) == Len(found) >= total

GetPage ==
    \E answer \in Answers :
        LET found == resources \o answer.Resources
        IN  /\ Asking
            /\ answer.totalResults # 0
            /\ resources' = found
            /\ IF Enough(found, answer.totalResults)
               THEN query' = "done" /\ UNCHANGED start_index
               ELSE NextPage(Len(answer.Resources)) /\ UNCHANGED query
            /\ UNCHANGED <<listed, changes, present, deleted>>

\* No answer, a status other than 200, no JSON, or no Resources where there is
\* nothing left from start_index on: an exception that leaves nothing of what
\* was found.
QueryThrows ==
    /\ Asking
    /\ query' = "failed"
    /\ resources' = <<>>
    /\ UNCHANGED <<listed, start_index, changes, present, deleted>>

-----------------------------------------------------------------------------

QueryIdle ==
    /\ query = "idle" /\ listed = <<>> /\ resources = <<>> /\ start_index = 1 /\ changes = 0
    /\ present = {} /\ deleted = FALSE

QueryInit ==
    /\ query = "asking"
    /\ listed \in {s \in SeqOf(Object, MaxListed) : \A m, n \in DOMAIN s : s[m] = s[n] => m = n}
    /\ resources = <<>>
    /\ start_index = 1
    /\ changes = 0
    /\ present = Range(listed)
    /\ deleted = FALSE

QueryStep == NothingThere \/ GetPage

QueryNext == QueryStep \/ QueryThrows \/ OthersCreate \/ OthersDelete

QuerySpec == QueryInit /\ [][QueryNext]_queryVars /\ WF_queryVars(QueryStep)

-----------------------------------------------------------------------------
\* Properties.

\* Whatever others create between the pages, and wherever the server lists it,
\* a query that ends has found every object that was there all the time; only a
\* deletion can move one past the page it would have been on
\* (simplescim_query_impl).
QueryFindsAll == query = "done" /\ ~deleted => present \subseteq Range(resources)

\* The inductive invariant behind it: as long as nothing was deleted, the query
\* asks on from just after what it has found, and what was there all the time is
\* found already or is listed from there on (simplescim_query_impl).  An object
\* that others put further up moves the later ones down, never up.
StillAhead ==
    /\ listed \in Seq(Object)
    /\ resources \in Seq(Object)
    /\ present \subseteq Range(listed)
    /\ start_index = Len(resources) + 1
    /\ start_index <= Len(listed) \/ start_index = 1
    /\ \A n \in DOMAIN listed :
          n < start_index /\ listed[n] \in present => listed[n] \in Range(resources)

QueryInv == (Asking /\ ~deleted => StillAhead) /\ QueryFindsAll
=============================================================================
