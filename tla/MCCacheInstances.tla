---------------------------- MODULE MCCacheInstances ----------------------------
(***************************************************************************)
(* Small instances of CacheInstances.  The first instance's new cache is   *)
(* one block long, the others' two, of the two reserved.                   *)
(***************************************************************************)
EXTENDS CacheInstances, TLC

CONSTANTS first, second, third

MCSize == [i \in Instance |-> IF i = first THEN 1 ELSE 2]
=============================================================================
