--------------------------- MODULE MCNodeIdentifier ---------------------------
(***************************************************************************)
(* Instances of NodeIdentifier for TLC.                                    *)
(***************************************************************************)
EXTENDS NodeIdentifier, TLC

CONSTANTS w1, w2

MCWorkers == {w1, w2}

Node(key, type, strategy, props) ==
  [node_key |-> key, node_type |-> type, strategy |-> strategy, props |-> props,
   identifiable |-> props # "missing"]

Asset1 == Node("asset1", "Asset", "static", "host")
Asset2 == Node("asset2", "Asset", "static", "host")
Unnamed == Node("unnamed", "Process", "session", "missing")

\* A host, with a process that has no identity; the host described twice in
\* one subgraph, with an edge between the two descriptions; nothing.
MCGraphs ==
  {[nodes |-> {Asset1, Unnamed}, edges |-> {<<Unnamed, Asset1>>}],
   [nodes |-> {Asset1, Asset2}, edges |-> {<<Asset1, Asset2>>}],
   [nodes |-> {}, edges |-> {}]}

Symmetry == Permutations(MCWorkers)
=============================================================================
