-------------------------- MODULE CompletionCache --------------------------
(***************************************************************************)
(* What the queue worker expects of its completion cache                   *)
(* (rust/sqs-executor/src/cache.rs, trait Cache): filter_cached gives back *)
(* the identities that still have to be processed.  It may forget, so that *)
(* work is done twice, but it may not leave an identity out unless         *)
(* somebody asked to store it, or work would never be done.                *)
(***************************************************************************)
EXTENDS Slices

CONSTANTS
  Identities,  \* what Cacheable::identity returns
  Workers,     \* the callers, one call at a time each
  Asks         \* the sequences of identities that are asked about or stored

VARIABLES
  offered,     \* the identities some store_all was called with
  call         \* the call each worker is in, and its answer once it has one

vars == <<offered, call>>

Idle == [kind |-> "idle"]
Asked(kind, ask) == [kind |-> kind, ask |-> ask]
Missed(ask, misses) == [kind |-> "missed", ask |-> ask, misses |-> misses]

Init == offered = {} /\ call = [w \in Workers |-> Idle]

BeginFilter(w) ==
  /\ call[w] = Idle
  /\ \E ask \in Asks : call' = [call EXCEPT ![w] = Asked("filter", ask)]
  /\ UNCHANGED offered

\* `misses` is what is left of `ask` without what it leaves out.
EndFilter(w) ==
  /\ call[w].kind = "filter"
  /\ \E hits \in SUBSET offered :
       call' = [call EXCEPT ![w] = Missed(call[w].ask, Without(call[w].ask, hits))]
  /\ UNCHANGED offered

\* A filter_cached that never had to leave the process.
Filter(w) ==
  /\ call[w] = Idle
  /\ \E ask \in Asks, hits \in SUBSET offered :
       call' = [call EXCEPT ![w] = Missed(ask, Without(ask, hits))]
  /\ UNCHANGED offered

BeginStore(w) ==
  /\ call[w] = Idle
  /\ \E ask \in Asks :
       /\ offered' = offered \union Elements(ask)
       /\ call' = [call EXCEPT ![w] = Asked("store", ask)]

\* The answer is taken, the store is over, or the caller is gone.
End(w) ==
  /\ call' = [call EXCEPT ![w] = Idle]
  /\ UNCHANGED offered

\* A process dies, and the calls of some workers with it.
EndSome ==
  /\ \E gone \in SUBSET Workers :
       call' = [w \in Workers |-> IF w \in gone THEN Idle ELSE call[w]]
  /\ UNCHANGED offered

Next ==
  \/ EndSome
  \/ \E w \in Workers :
       BeginFilter(w) \/ EndFilter(w) \/ Filter(w) \/ BeginStore(w) \/ End(w)

Spec == Init /\ [][Next]_vars
=============================================================================
