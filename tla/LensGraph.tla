----------------------------- MODULE LensGraph -----------------------------
(***************************************************************************)
(* The graph the engagement view draws (engagement_view/src/components/    *)
(* graphDisplay): how it is made from a lens's scope, and how a newer one  *)
(* is merged into the one on the screen.                                   *)
(*                                                                         *)
(* A graph has a node per uid, links <<source, name, target>>, and among   *)
(* them the fresh ones: the links that were added by the last update.      *)
(* react-force-graph replaces the uids in their source and target by the   *)
(* nodes themselves when it next digests the graph, some time after the    *)
(* graph was set: until then the merge cannot recognise them.              *)
(*                                                                         *)
(* Of a node's properties two are kept: its risk_score, and whether it was *)
(* last visited at the top of the scope ("full") or as a neighbour, where  *)
(* the fields of its edges were not asked for.                             *)
(***************************************************************************)
EXTENDS LensScope

NoNodes == [u \in {} |-> [risk |-> 0, full |-> TRUE]]
EmptyGraph == [nodes |-> NoNodes, links |-> {}, fresh |-> {}]

\* traverseNodes and vizNodeMap: nodes are visited in the order of the scope,
\* which is Dgraph's, by uid, each with its neighbours after it.  The last
\* visit writes the entry, so a neighbour of a later node loses its risks.
visitedLastAsNeighbour(scope, u) ==
  \E v \in DOMAIN scope : v >= u /\ \E e \in scope[v].edges : e.uid = u

riskScore(edges) == MapThenSumSet(LAMBDA e : e.score, {e \in edges : e.name = "risks"})

vizNode(scope, u) ==
  LET depth == IF visitedLastAsNeighbour(scope, u) THEN 1 ELSE DEFAULT_STACK_LIMIT
  IN  [risk |-> riskScore(genField(scope[u], depth)), full |-> depth = DEFAULT_STACK_LIMIT]

\* vizGraphFromLensScope.  Risks are not drawn, nor the links to them.  (Nodes
\* without a type would be "Unknown Type" to getNodeType, which is not the
\* "Unknown" it is compared with; the endpoint sends none.)
\* (vizGraphWithRiskLinks: a mutant that forgets the links.)
vizGraphWithRiskLinks(scope) ==
  LET drawn == {u \in DOMAIN scope : scope[u].type # "Risk"}
      links == UNION {{<<u, e.name, e.uid>> : e \in scope[u].edges} : u \in drawn}
  IN  [nodes |-> [u \in drawn |-> vizNode(scope, u)], links |-> links, fresh |-> links]

vizGraphFromLensScope(scope) ==
  LET drawn == {u \in DOMAIN scope : scope[u].type # "Risk"}
      links == UNION {{<<u, e.name, e.uid>> : e \in {d \in scope[u].edges : d.type # "Risk"}}
                        : u \in drawn}
  IN  [nodes |-> [u \in drawn |-> vizNode(scope, u)], links |-> links, fresh |-> links]

\* mergeNodes tells whether the newer node has a property the older one lacks.
\* It then writes the property to a copy that is dropped: the older node stays
\* in the graph as it was, and properties both have are not compared.  A node
\* visited at the top has a field, null at least, for every edge of its type.
mergeNodes(node, newNode) == newNode.full /\ ~node.full

\* The links Map of mergeGraphs has one key for all links of a name whose
\* ends are still numbers ("undefined" + name + "undefined"): the last stays.
survivors(unbound) ==
  {l \in unbound : \A m \in unbound : m[2] = l[2] =>
     m[1] < l[1] \/ (m[1] = l[1] /\ m[3] <= l[3])}

\* mergeGraphs, with the links of the older graph that are unbound.  What it
\* returns for "no new updates" is null: updated is FALSE then.
mergeOf(curGraph, unbound, updateGraph) ==
  LET known == curGraph.links \ unbound
      fresh == survivors(unbound) \union (updateGraph.links \ known)
  IN  [nodes |-> [u \in DOMAIN curGraph.nodes \union DOMAIN updateGraph.nodes |->
                    IF u \in DOMAIN curGraph.nodes
                    THEN curGraph.nodes[u] ELSE updateGraph.nodes[u]],
       links |-> known \union fresh, fresh |-> fresh]

newLinks(curGraph, unbound, updateGraph) ==
  updateGraph.links \ (curGraph.links \ unbound)
newNodes(curGraph, updateGraph) == DOMAIN updateGraph.nodes \ DOMAIN curGraph.nodes
mergedNodes(curGraph, updateGraph) ==
  {u \in DOMAIN updateGraph.nodes \intersect DOMAIN curGraph.nodes :
     mergeNodes(curGraph.nodes[u], updateGraph.nodes[u])}

\* (mergeGraphsForNewLinks: a mutant that does not count new nodes.)
mergeGraphsForNewLinks(curGraph, unbound, updateGraph) ==
  [graph |-> mergeOf(curGraph, unbound, updateGraph),
   updated |-> newLinks(curGraph, unbound, updateGraph) # {}]

mergeGraphs(curGraph, unbound, updateGraph) ==
  [graph |-> mergeOf(curGraph, unbound, updateGraph),
   updated |-> \/ newLinks(curGraph, unbound, updateGraph) # {}
               \/ newNodes(curGraph, updateGraph) # {}
               \/ mergedNodes(curGraph, updateGraph) # {}]

\* calcLinkRisk reads risk_score of both ends before it tests that findNode
\* found them: a link whose ends are not both nodes throws in the drawing.
calcLinkRiskThrows(graph, l) == ~({l[1], l[3]} \subseteq DOMAIN graph.nodes)
=============================================================================
