---------------------------- MODULE MCRedisCache ----------------------------
(***************************************************************************)
(* Instances of RedisCache for TLC.                                        *)
(***************************************************************************)
EXTENDS RedisCache

CONSTANTS x1, x2, p1, p2, w1, w2

MCIdentities == {x1, x2}
MCProcesses == {p1, p2}
MCWorkers == {w1, w2}

\* With LRU caches of one entry: one slice is longer than the cache, and one
\* holds an identity twice.
MCAsks == {<<x1, x1>>, <<x2>>, <<x1, x2>>}
=============================================================================
