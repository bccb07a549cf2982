---------------------------- MODULE MCCacheService ----------------------------
(* Instances of CacheService for TLC. *)
EXTENDS CacheRefinement, TLC

CONSTANTS c1, c2, c3, i1, i2

\* All callers in one process.
OneHome == (c1 :> i1) @@ (c2 :> i1) @@ (c3 :> i1)
\* One caller in each instance.
OneEach == (c1 :> i1) @@ (c2 :> i2)
===============================================================================
