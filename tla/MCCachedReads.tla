---------------------------- MODULE MCCachedReads ----------------------------
(***************************************************************************)
(* Instances of CachedReads for TLC.                                       *)
(***************************************************************************)
EXTENDS CachedReads

CONSTANTS r1, r2, r3

EachWay ==
  [r \in {r1, r2, r3} |-> CASE r = r1 -> "Cacheable"
                            [] r = r2 -> "CacheInterceptor"
                            [] r = r3 -> "controller"]

\* The source starts with something falsy.
FalsyFirst == [v \in 0..1 |-> IF v = 0 THEN "falsy" ELSE "truthy"]
=============================================================================
