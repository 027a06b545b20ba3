----------------------------- MODULE RedisCache -----------------------------
(***************************************************************************)
(* The completion cache of the queue worker                                *)
(* (rust/sqs-executor/src/redis_cache.rs): an LRU cache in the memory of   *)
(* each process, shared by the clones its futures hold and guarded by a    *)
(* mutex, in front of a Redis that all processes share.                    *)
(*                                                                         *)
(* Each step between two awaits is one action: the mutex is never held     *)
(* across an await.  Redis may fail a request, not answer it, apply it     *)
(* after the caller gave up, or lose its contents; a future may be dropped *)
(* at an await (the batch timeout) and a process may die.                  *)
(***************************************************************************)
EXTENDS FiniteSets, Functions, Slices

CONSTANTS
  Identities,  \* what Cacheable::identity returns
  Processes,   \* the processes that share a Redis
  Workers,     \* the clones of the cache, one call at a time each
  Capacity,    \* entries of an LRU cache (100_000 in the code)
  Asks         \* the slices of identities the cache is called with

ASSUME ConstantsAssumption ==
  /\ Capacity \in Nat \ {0}
  /\ \A ask \in Asks : ask \in Seq(Identities)

VARIABLES
  home,     \* the process of each worker, which does not change
  lru,      \* the entries of each process's LRU cache, least recently used first
  redis,    \* the keys set in Redis
  wire,     \* keys being set for a caller that no longer waits
  call,     \* the call each worker is in
  offered   \* history: the identities store_all was called with

vars == <<home, lru, redis, wire, call, offered>>

Idle == [kind |-> "idle"]

Init ==  \* with_lru_capacity
  /\ home \in [Workers -> Processes]
  /\ lru = [p \in Processes |-> <<>>]
  /\ redis = {}
  /\ wire = {}
  /\ call = [w \in Workers |-> Idle]
  /\ offered = {}

(***************************************************************************)
(* The lru crate: `get` and `put` make an entry the most recent one, and   *)
(* `put` drops the least recent one when there is no room.  The `get` of   *)
(* an entry is a `put` of what is there.                                   *)
(***************************************************************************)
Put(cache, x) ==
  LET put == Append(Without(cache, {x}), x)
  IN  IF Len(put) > Capacity THEN Tail(put) ELSE put

\* The cache after each `put` of the first n of xs.
Puts(cache, xs) ==
  LET after[n \in 0..Len(xs)] ==
        IF n = 0 THEN cache ELSE Put(after[n - 1], xs[n])
  IN  after

PutAll(cache, xs) == Puts(cache, xs)[Len(xs)]

\* Which of xs have no entry at the moment they are put, so that the `put`
\* of _store_all returns None.
New(cache, xs) ==
  {xs[n] : n \in {m \in 1..Len(xs) : xs[m] \notin Elements(Puts(cache, xs)[m - 1])}}

Hits(cache, xs) == Within(xs, Elements(cache))
Misses(cache, xs) == Without(xs, Elements(cache))

(***************************************************************************)
(* _filter_cached, for filter_cached and all_exist.                        *)
(***************************************************************************)

\* The hits of the LRU cache are refreshed.  Without a miss Redis is not
\* asked.
FilterInLru(w) ==
  /\ call[w] = Idle
  /\ \E ask \in Asks :
       LET cache  == lru[home[w]]
           misses == Misses(cache, ask)
       IN  /\ lru' = [lru EXCEPT ![home[w]] = PutAll(cache, Hits(cache, ask))]
           /\ call' = [call EXCEPT ![w] =
                [kind |-> IF misses = <<>> THEN "missed" ELSE "get",
                 ask |-> ask, misses |-> misses]]
  /\ UNCHANGED <<home, redis, wire, offered>>

\* As RedisAnswers, with the answers zipped to the ids that were asked for
\* first instead of those that missed in the LRU cache.
RedisAnswersMisaligned(w) ==
  /\ call[w].kind = "get"
  /\ LET c == call[w]
         n == Len(c.misses)
     IN  call' = [call EXCEPT ![w] =
           [kind |-> "got", ask |-> c.ask,
            hits |-> [i \in 1..Cardinality({j \in 1..n : c.misses[j] \in redis}) |-> c.ask[i]],
            misses |-> Without(c.misses, redis)]]
  /\ UNCHANGED <<home, lru, redis, wire, offered>>

\* Redis answers a GET: which of the misses it holds.
RedisAnswers(w) ==
  /\ call[w].kind = "get"
  /\ call' = [call EXCEPT ![w] =
       [kind |-> "got", ask |-> @.ask,
        hits |-> Within(@.misses, redis),
        misses |-> Without(@.misses, redis)]]
  /\ UNCHANGED <<home, lru, redis, wire, offered>>

\* The hits of Redis are put back in the LRU cache.
FilterInRedis(w) ==
  /\ call[w].kind = "got"
  /\ lru' = [lru EXCEPT ![home[w]] = PutAll(@, call[w].hits)]
  /\ call' = [call EXCEPT ![w] =
       [kind |-> "missed", ask |-> @.ask, misses |-> @.misses]]
  /\ UNCHANGED <<home, redis, wire, offered>>

\* As GetFails, settling for no misses at all.
GetFailsAsHit(w) ==
  /\ call[w].kind = "get"
  /\ call' = [call EXCEPT ![w] =
       [kind |-> "missed", ask |-> @.ask, misses |-> <<>>]]
  /\ UNCHANGED <<home, lru, redis, wire, offered>>

\* Redis fails a GET: the caller settles for the misses of the LRU cache.
GetFails(w) ==
  /\ call[w].kind = "get"
  /\ call' = [call EXCEPT ![w] =
       [kind |-> "missed", ask |-> @.ask, misses |-> @.misses]]
  /\ UNCHANGED <<home, lru, redis, wire, offered>>

\* The caller takes the answer of filter_cached.
TakeAnswer(w) ==
  /\ call[w].kind = "missed"
  /\ call' = [call EXCEPT ![w] = Idle]
  /\ UNCHANGED <<home, lru, redis, wire, offered>>

(***************************************************************************)
(* _store_all, for store and store_all.                                    *)
(***************************************************************************)

\* As StoreInLru, with the capacity of the cache not enforced.
StoreInLruUnbounded(w) ==
  /\ call[w] = Idle
  /\ \E ask \in Asks :
       /\ ask # <<>>
       /\ lru' = [lru EXCEPT ![home[w]] = @ \o Without(ask, Elements(@))]
       /\ call' = [call EXCEPT ![w] =
            [kind |-> "set", ask |-> ask, new |-> New(lru[home[w]], ask)]]
       /\ offered' = offered \union Elements(ask)
  /\ UNCHANGED <<home, redis, wire>>

\* All go to the LRU cache; those that were new to it will go to Redis.
StoreInLru(w) ==
  /\ call[w] = Idle
  /\ \E ask \in Asks :
       /\ ask # <<>>
       /\ lru' = [lru EXCEPT ![home[w]] = PutAll(@, ask)]
       /\ call' = [call EXCEPT ![w] =
            [kind |-> "set", ask |-> ask, new |-> New(lru[home[w]], ask)]]
       /\ offered' = offered \union Elements(ask)
  /\ UNCHANGED <<home, redis, wire>>

Apply(keys) == redis' = redis \union keys

\* Redis applies the MSET.
SetOk(w) ==
  /\ call[w].kind = "set"
  /\ call[w].new # {}
  /\ Apply(call[w].new)
  /\ call' = [call EXCEPT ![w] = Idle]
  /\ UNCHANGED <<home, lru, wire, offered>>

\* Redis refuses it; it always refuses an MSET of no pair.
SetFails(w) ==
  /\ call[w].kind = "set"
  /\ call' = [call EXCEPT ![w] = Idle]
  /\ UNCHANGED <<home, lru, redis, wire, offered>>

\* As SetTimesOut, with the timer started only once Redis has answered.
SetTimesOutLate(w) ==
  /\ call[w].kind = "set"
  /\ call[w].new \subseteq redis
  /\ wire' = wire \union call[w].new
  /\ call' = [call EXCEPT ![w] = Idle]
  /\ UNCHANGED <<home, lru, redis, offered>>

\* REDIS_REQUEST_TIMEOUT passes; the request is still on its way.
SetTimesOut(w) ==
  /\ call[w].kind = "set"
  /\ wire' = wire \union call[w].new
  /\ call' = [call EXCEPT ![w] = Idle]
  /\ UNCHANGED <<home, lru, redis, offered>>

(***************************************************************************)
(* The environment.                                                        *)
(***************************************************************************)

\* A key that is set for nobody reaches Redis, or is lost.
WireApplied ==
  /\ \E x \in wire : Apply({x}) /\ wire' = wire \ {x}
  /\ UNCHANGED <<home, lru, call, offered>>

WireLost ==
  /\ \E x \in wire : wire' = wire \ {x}
  /\ UNCHANGED <<home, lru, redis, call, offered>>

\* Redis restarts without its contents.
RedisRestarts ==
  /\ redis # {}
  /\ redis' = {}
  /\ UNCHANGED <<home, lru, wire, call, offered>>

InFlight(ws) == UNION {call[w].new : w \in {v \in ws : call[v].kind = "set"}}

\* The future is dropped at an await.
Abandon(w) ==
  /\ call[w].kind \in {"get", "set"}
  /\ wire' = wire \union InFlight({w})
  /\ call' = [call EXCEPT ![w] = Idle]
  /\ UNCHANGED <<home, lru, redis, offered>>

\* The process restarts, with an empty LRU cache.
Crash(p) ==
  LET dead == {w \in Workers : home[w] = p}
  IN  /\ lru[p] # <<>>
      /\ lru' = [lru EXCEPT ![p] = <<>>]
      /\ wire' = wire \union InFlight(dead)
      /\ call' = [w \in Workers |-> IF w \in dead THEN Idle ELSE call[w]]
      /\ UNCHANGED <<home, redis, offered>>

Next ==
  \/ \E w \in Workers :
       \/ FilterInLru(w) \/ RedisAnswers(w) \/ FilterInRedis(w) \/ GetFails(w)
       \/ TakeAnswer(w)
       \/ StoreInLru(w) \/ SetOk(w) \/ SetFails(w) \/ SetTimesOut(w)
       \/ Abandon(w)
  \/ \E p \in Processes : Crash(p)
  \/ WireApplied \/ WireLost \/ RedisRestarts

Spec == Init /\ [][Next]_vars

(***************************************************************************)
(* The executor polls a future that can go on, and tokio's timer fires;    *)
(* nothing makes Redis answer.                                             *)
(***************************************************************************)
GoesOn(w) == FilterInRedis(w) \/ TakeAnswer(w) \/ SetTimesOut(w)

Fairness == \A w \in Workers : WF_vars(GoesOn(w))

FairSpec == Spec /\ Fairness

-----------------------------------------------------------------------------
\* Every LRU cache holds at most Capacity entries, each once, whatever mix
\* of hits, puts of Redis hits and stores produced it, and every call is in
\* a state of _filter_cached or _store_all.
TypeOK ==
  /\ \A p \in Processes :
       /\ lru[p] \in Seq(Identities)
       /\ Len(lru[p]) <= Capacity
       /\ IsInjective(lru[p])
  /\ wire \subseteq offered
  /\ \A w \in Workers :
       \/ call[w] = Idle
       \/ call[w].kind \in {"get", "got", "missed", "set"} /\ call[w].ask \in Asks

\* A filter_cached leaves out only identities that some store_all was called
\* with: across processes, evictions, restarts, late writes and a Redis that
\* fails between the two lookups, the cache never claims work it was not
\* told of.  (The worker skips what the cache leaves out: lib.rs:180.)
Claimed(w) == Elements(call[w].ask) \ Elements(call[w].misses)
NoFalseClaim == \A w \in Workers : call[w].kind = "missed" => Claimed(w) \subseteq offered

\* What the caller sees is a CompletionCache: an answer lists the missing
\* identities in the order they were asked about, and leaves out only offered
\* ones.
Shown(c) ==
  CASE c.kind \in {"get", "got"} -> [kind |-> "filter", ask |-> c.ask]
    [] c.kind = "set" -> [kind |-> "store", ask |-> c.ask]
    [] OTHER -> c

Abstract == INSTANCE CompletionCache WITH call <- [w \in Workers |-> Shown(call[w])]
AnswersLikeACache == Abstract!Spec

\* A store_all gives up on a Redis that does not answer.
StoresEnd == \A w \in Workers : call[w].kind = "set" ~> call[w].kind # "set"
=============================================================================
