----------------------------- MODULE LensScope -----------------------------
(***************************************************************************)
(* What the GraphQL endpoint answers when it is asked for the scope of a   *)
(* lens (graphql_endpoint/modules/root_query.ts, schema_to_graphql.ts,     *)
(* query_generator.ts), as functions of what Dgraph holds.                 *)
(*                                                                         *)
(* A Dgraph holds, for some uids, a node: its most concrete type ("None"   *)
(* if the node has no dgraph.type) and its score, which matters for risks; *)
(* edges <<source, name, target>>; and the scope of every lens.  An edge   *)
(* to many and an edge to one differ in how they are filtered, not in what *)
(* is left, so edges are a set here.  The other properties are left out.   *)
(***************************************************************************)
EXTENDS Integers, FiniteSets, FiniteSetsExt

\* RawNode and Schema: no dgraph_type, or one of the deployed schemas' types.
Untyped == "None"

\* hasDgraphType after filterDefaultDgraphNodeTypes: "Base" and "Entity" do
\* not count, and nodes with nothing else are tossed.
hasDgraphType(dgraph, u) == dgraph.type[u] # Untyped

\* uids_in_scope: what is left of the lens's scope.
uids_in_scope(dgraph, lens) ==
  {u \in dgraph.scope[lens] : hasDgraphType(dgraph, u)}

\* batchEnrichNodes and asEnrichedNodeWithSchemas on the neighbours of a node:
\* typed ones survive, and of these the risks and those in scope.
edgesOf(dgraph, lens, u) ==
  {e \in dgraph.edges : /\ e[1] = u /\ hasDgraphType(dgraph, e[3])
                        /\ e[2] = "risks" \/ e[3] \in uids_in_scope(dgraph, lens)}

neighbour(dgraph, e) ==
  [name |-> e[2], uid |-> e[3], type |-> dgraph.type[e[3]], score |-> dgraph.score[e[3]]]

handleLensScope(dgraph, lens) ==
  [u \in uids_in_scope(dgraph, lens) |->
     [type |-> dgraph.type[u],
      edges |-> {neighbour(dgraph, e) : e \in edgesOf(dgraph, lens, u)}]]

\* resolveType: throws on a type no schema is deployed for.  One node of that
\* kind gives the whole answer an "errors" field, and the client then drops
\* the data (fetch.ts).
resolveType(schemas, type) == type \in schemas

\* The answer, or "errors".
lens_scope(dgraph, schemas, lens) ==
  IF \A u \in uids_in_scope(dgraph, lens) : resolveType(schemas, dgraph.type[u])
  THEN [ok |-> TRUE, scope |-> handleLensScope(dgraph, lens)]
  ELSE [ok |-> FALSE, scope |-> << >>]

\* QueryGenerator with DEFAULT_STACK_LIMIT = 2: the query asks for the fields of
\* a node and the scalars of its neighbours.  A neighbour has no edges to
\* follow, and no risks: the fields of its edges would be empty and are elided.
DEFAULT_STACK_LIMIT == 2
genField(node, stackLimit) == IF stackLimit > 1 THEN node.edges ELSE {}
=============================================================================
