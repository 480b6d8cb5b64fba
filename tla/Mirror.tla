-------------------------------- MODULE Mirror --------------------------------
(***************************************************************************)
(* What the client promises of the SCIM server, without caches, rebuilds,  *)
(* comparisons or passes.  The server is a set of places, an endpoint and  *)
(* an id each, that hold a body or nothing.  A run takes a look at the     *)
(* data source.  Until it ends it writes each place at most once, and then *)
(* to what it saw: never an older body, never a deletion of what is there. *)
(* A write may reach the server later than its run, or not at all.         *)
(***************************************************************************)
EXTENDS Naturals

CONSTANTS
    Place,           \* <<endpoint, id>>
    Contents,        \* what the data source may have: [Place -> body or Nothing]
    Body,
    Nothing          \* no body

VARIABLES
    actual,          \* the data source
    held,            \* [Place -> body or Nothing]: the server
    view,            \* what the run in progress has seen, or Nothing between runs
    settled,         \* the places that the run has dealt with
    delayed,         \* writes that may still reach the server
    disturbances     \* how often a write was delayed or others wrote

mirrorVars == <<actual, held, view, settled, delayed, disturbances>>

MirrorInit ==
    /\ actual \in Contents
    /\ held = [p \in Place |-> Nothing]
    /\ view = Nothing
    /\ settled = {}
    /\ delayed = {}
    /\ disturbances = 0

Running == view # Nothing

Change ==
    /\ actual' \in Contents
    /\ UNCHANGED <<held, view, settled, delayed, disturbances>>

\* The run sees the data source, or is told to see nothing there.
Begin ==
    /\ ~Running
    /\ view' \in {actual, [p \in Place |-> Nothing]}
    /\ settled' = {}
    /\ UNCHANGED <<actual, held, delayed, disturbances>>

\* The one write that the run may make to a place.
Wanted(p) == [place |-> p, body |-> view[p]]

\* The server takes the write.
Push(p) ==
    /\ Running
    /\ p \notin settled
    /\ held' = [held EXCEPT ![p] = view[p]]
    /\ settled' = settled \cup {p}
    /\ UNCHANGED <<actual, view, delayed, disturbances>>

\* Its answer does not come: the server may take it later.
Delay(p) ==
    /\ Running
    /\ p \notin settled
    /\ delayed' = delayed \cup {Wanted(p)}
    /\ settled' = settled \cup {p}
    /\ disturbances' = disturbances + 1
    /\ UNCHANGED <<actual, held, view>>

\* Nothing is written, or the server does not take it.
PassOver(p) ==
    /\ Running
    /\ settled' = settled \cup {p}
    /\ disturbances' \in {disturbances, disturbances + 1}
    /\ UNCHANGED <<actual, held, view, delayed>>

\* (The same write may have been delayed twice.)
Arrive(w) ==
    /\ w \in delayed
    /\ held' = [held EXCEPT ![w.place] = w.body]
    /\ delayed' \in {delayed, delayed \ {w}}
    /\ UNCHANGED <<actual, view, settled, disturbances>>

Lose(w) ==
    /\ w \in delayed
    /\ delayed' \in {delayed, delayed \ {w}}
    /\ UNCHANGED <<actual, held, view, settled, disturbances>>

\* The run is over, finished or not.
End ==
    /\ Running
    /\ view' = Nothing
    /\ settled' = {}
    /\ disturbances' \in {disturbances, disturbances + 1}
    /\ UNCHANGED <<actual, held, delayed>>

\* Others write to the server, or something else goes wrong.
Disturb ==
    /\ disturbances' = disturbances + 1
    /\ \/ UNCHANGED held
       \/ \E p \in Place, b \in Body \cup {Nothing} : held' = [held EXCEPT ![p] = b]
    /\ UNCHANGED <<actual, view, settled, delayed>>

MirrorNext ==
    \/ Change
    \/ Begin
    \/ \E p \in Place : Push(p) \/ Delay(p) \/ PassOver(p)
    \/ \E w \in delayed : Arrive(w) \/ Lose(w)
    \/ End
    \/ Disturb

MirrorSpec == MirrorInit /\ [][MirrorNext]_mirrorVars
=============================================================================
