------------------------------ MODULE Thresholds ------------------------------
(***************************************************************************)
(* thresholds.cpp: refuse a run when the number of objects of some type    *)
(* differs too much from the number in the cache.  Operators only; the run *)
(* that applies them is in ScimSync.                                       *)
(***************************************************************************)
EXTENDS RenderedObjects, Integers, FiniteSets

CONSTANTS
    NoThreshold,         \* a setting that is not in the configuration
    absolute_threshold,  \* [Type \cup {"Object"} -> Int or NoThreshold]
    relative_threshold,  \* the same for <type>-threshold-relative, in percent
    RoundsDown           \* <<percentage, count>> pairs whose product with 0.01
                         \* comes out below its exact value in a double

ASSUME ThresholdsAssumption ==
    /\ absolute_threshold \in [Type \cup {"Object"} -> Int \cup {NoThreshold}]
    /\ relative_threshold \in [Type \cup {"Object"} -> Int \cup {NoThreshold}]
    /\ RoundsDown \subseteq Int \X Nat

\* A type without a threshold of its own has the one for "Object".
get_threshold(setting, t) ==
    IF setting[t] # NoThreshold THEN setting[t] ELSE setting["Object"]

\* diff > percentage * 0.01 * old: the double differs from the exact product
\* by far less than 0.01, so it matters only when both sides are equal.
ExceedsRelative(diff, percentage, old) ==
    \/ 100 * diff > percentage * old
    \/ 100 * diff = percentage * old /\ <<percentage, old>> \in RoundsDown

\* Mutated form: one object too many is let through.
verify_thresholds_for_type_OffByOne(old, new, absolute, relative) ==
    LET diff == IF old > new THEN old - new ELSE new - old
    IN  /\ absolute # NoThreshold => diff <= absolute + 1
        /\ relative # NoThreshold => ~ExceedsRelative(diff, relative, old)

verify_thresholds_for_type(old, new, absolute, relative) ==
    LET diff == IF old > new THEN old - new ELSE new - old
    IN  /\ absolute # NoThreshold => diff <= absolute
        /\ relative # NoThreshold => ~ExceedsRelative(diff, relative, old)

count_objects_of_type(list, t) ==
    Cardinality({u \in DOMAIN list : list[u] # Absent /\ list[u].type = t})

\* TRUE when no threshold of the given types stops the run.
verify_thresholds(cache, loaded, types) ==
    \A t \in types :
        verify_thresholds_for_type(count_objects_of_type(cache, t),
                                   count_objects_of_type(loaded, t),
                                   get_threshold(absolute_threshold, t),
                                   get_threshold(relative_threshold, t))
=============================================================================
