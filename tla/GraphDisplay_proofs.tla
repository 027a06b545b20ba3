------------------------ MODULE GraphDisplay_proofs ------------------------
(***************************************************************************)
(* Proofs about GraphDisplay, for any lenses, nodes, edges, changes of the *)
(* world and requests in flight: the graph on the screen is never a        *)
(* mixture of two lenses, and, if edges named "risks" lead to risks, every *)
(* link joins two nodes.                                                   *)
(***************************************************************************)
EXTENDS GraphDisplay, TLAPS

\* What grapl_analyzerlib's schemas say of edges named "risks".
RiskEdges ==
  \A e \in Initially.edges \union Connectable :
    e[2] = "risks" => Initially.type[e[3]] \in {"Risk", Untyped}

\* Every link of a graph has its nodes, and every edge of a scope that is drawn.
Joined(graph) == \A l \in graph.links : {l[1], l[3]} \subseteq DOMAIN graph.nodes

Closed(scope) ==
  \A u \in DOMAIN scope : \A e \in scope[u].edges :
    e.type # "Risk" => e.uid \in DOMAIN scope /\ scope[e.uid].type # "Risk"

WorldOK ==
  /\ dgraph.type = Initially.type
  /\ dgraph.scope \in [Lenses -> SUBSET Uids]
  /\ \A l \in Lenses : dgraph.scope[l] \subseteq NodesOf(l)
  /\ dgraph.edges \subseteq Initially.edges \union Connectable

ScopeOK(scope, l) == DOMAIN scope \subseteq NodesOf(l) /\ (RiskEdges => Closed(scope))

StateOK(state) ==
  /\ state.curLensName \in Lenses \union {NoLens}
  /\ state.graphData.fresh \subseteq state.graphData.links
  /\ state.curLensName = NoLens => state.graphData = EmptyGraph
  /\ state.curLensName # NoLens =>
       DOMAIN state.graphData.nodes \subseteq NodesOf(state.curLensName)
  /\ RiskEdges => Joined(state.graphData)

FetchOK(f) ==
  /\ f.lens \in Lenses /\ f.answer \in {"sent", "answered", "failed"} /\ StateOK(f.state)
  /\ f.answer = "answered" => ScopeOK(f.scope, f.lens)

Inv ==
  /\ WorldOK /\ changes \in 0..MaxChanges /\ failures \in 0..MaxFailures
  /\ lensName \in Lenses \union {NoLens}
  /\ StateOK(display) /\ \A f \in fetches : FetchOK(f)

-----------------------------------------------------------------------------
(* The scope the endpoint answers, and the graph made of it *)

LEMMA NodesOfLens == \A l \in Lenses : NodesOf(l) \subseteq Uids
<1> SUFFICES ASSUME NEW l \in Lenses, NEW u \in NodesOf(l) PROVE u \in Uids
  OBVIOUS
<1>1. CASE u \in Initially.scope[l]
  BY <1>1, LensAssumption
<1>2. CASE \E a \in Attachable : u = a[2]
  BY <1>2, LensAssumption
<1> QED BY <1>1, <1>2 DEF NodesOf

LEMMA AnsweredScope ==
  ASSUME WorldOK, NEW l \in Lenses
  PROVE  ScopeOK(handleLensScope(dgraph, l), l)
<1> DEFINE scope == handleLensScope(dgraph, l)
           in == uids_in_scope(dgraph, l)
<1>1. DOMAIN scope = in /\ in \subseteq dgraph.scope[l]
  BY DEF handleLensScope, uids_in_scope
<1>2. DOMAIN scope \subseteq NodesOf(l)
  BY <1>1 DEF WorldOK
<1>3. ASSUME RiskEdges, NEW u \in DOMAIN scope, NEW n \in scope[u].edges, n.type # "Risk"
      PROVE  n.uid \in DOMAIN scope /\ scope[n.uid].type # "Risk"
  <2>1. PICK e \in edgesOf(dgraph, l, u) : n = neighbour(dgraph, e)
    BY <1>1 DEF handleLensScope
  <2>2. n.uid = e[3] /\ n.type = dgraph.type[e[3]]
    BY <2>1 DEF neighbour
  <2>3. /\ e \in dgraph.edges /\ dgraph.type[e[3]] # Untyped
        /\ e[2] = "risks" \/ e[3] \in in
    BY DEF edgesOf, hasDgraphType
  <2>4. e[2] # "risks"
    BY <1>3, <2>2, <2>3 DEF RiskEdges, WorldOK
  <2>5. e[3] \in in
    BY <2>3, <2>4
  <2>6. scope[e[3]].type = dgraph.type[e[3]]
    BY <2>5 DEF handleLensScope
  <2> QED BY <1>1, <1>3, <2>2, <2>5, <2>6
<1> QED BY <1>2, <1>3 DEF ScopeOK, Closed

LEMMA GraphOfScope ==
  ASSUME NEW scope
  PROVE  LET graph == vizGraphFromLensScope(scope)
         IN  /\ DOMAIN graph.nodes \subseteq DOMAIN scope
             /\ graph.fresh \subseteq graph.links
             /\ Closed(scope) => Joined(graph)
<1> DEFINE graph == vizGraphFromLensScope(scope)
           drawn == {u \in DOMAIN scope : scope[u].type # "Risk"}
           linksOf(u) ==
             {<<u, e.name, e.uid>> : e \in {d \in scope[u].edges : d.type # "Risk"}}
<1>1. DOMAIN graph.nodes = drawn /\ graph.links = UNION {linksOf(u) : u \in drawn}
      /\ graph.fresh = graph.links
  BY DEF vizGraphFromLensScope
<1>2. ASSUME Closed(scope), NEW l \in graph.links
      PROVE  {l[1], l[3]} \subseteq drawn
  <2>1. PICK u \in drawn : l \in linksOf(u)
    BY <1>1
  <2>2. PICK e \in scope[u].edges : e.type # "Risk" /\ l = <<u, e.name, e.uid>>
    BY <2>1
  <2>3. e.uid \in drawn
    BY <1>2, <2>2 DEF Closed
  <2> QED BY <2>2, <2>3
<1> QED BY <1>1, <1>2 DEF Joined

\* The merge has the nodes of both graphs, and no links but theirs.
LEMMA Merged ==
  ASSUME NEW g, NEW h, NEW unbound, unbound \subseteq g.links
  PROVE  LET m == mergeGraphs(g, unbound, h).graph
         IN  /\ DOMAIN m.nodes = DOMAIN g.nodes \union DOMAIN h.nodes
             /\ m.links \subseteq g.links \union h.links
             /\ m.fresh \subseteq m.links
<1> DEFINE m == mergeGraphs(g, unbound, h).graph
           known == g.links \ unbound
           fresh == survivors(unbound) \union (h.links \ known)
<1>1. m = mergeOf(g, unbound, h)
  BY DEF mergeGraphs
<1>2. survivors(unbound) \subseteq g.links
  BY DEF survivors
<1>3. /\ DOMAIN m.nodes = DOMAIN g.nodes \union DOMAIN h.nodes
      /\ m.links = known \union fresh /\ m.fresh = fresh
  BY <1>1 DEF mergeOf
<1> QED BY <1>2, <1>3

-----------------------------------------------------------------------------
(* The invariant *)

LEMMA InitInv == Init => Inv
<1> SUFFICES ASSUME Init PROVE Inv
  OBVIOUS
<1>1. WorldOK
  BY LensAssumption DEF Init, WorldOK, NodesOf
<1>2. StateOK(display)
  <2>1. display.curLensName = NoLens /\ display.graphData = EmptyGraph
    BY DEF Init, defaultGraphDisplayState
  <2>2. EmptyGraph.links = {} /\ EmptyGraph.fresh = {}
    BY DEF EmptyGraph
  <2> QED BY <2>1, <2>2 DEF StateOK, Joined
<1>3. changes \in 0..MaxChanges /\ failures \in 0..MaxFailures
  BY LensAssumption DEF Init
<1> QED BY <1>1, <1>2, <1>3 DEF Init, Inv

\* A closure over a good state, for a lens.
LEMMA NewFetchesOK ==
  ASSUME NEW l \in Lenses \union {NoLens}, NEW state, StateOK(state)
  PROVE  \A f \in newFetches(l, state) : FetchOK(f)
<1> SUFFICES ASSUME NEW f \in newFetches(l, state) PROVE FetchOK(f)
  OBVIOUS
<1>1. l # NoLens
  BY DEF newFetches
<1>2. f.lens = l /\ f.answer = "sent" /\ f.state = state
  BY <1>1 DEF newFetches
<1> QED BY <1>1, <1>2 DEF FetchOK

\* What updateGraph sets is good, merged or not.
LEMMA NewStateOK ==
  ASSUME NEW f, FetchOK(f), f.answer = "answered", NEW unbound \in UnboundAtArrival(f),
         NEW state,
         LET updatedGraph == vizGraphFromLensScope(f.scope)
         IN  state = [curLensName |-> f.lens,
                      graphData |-> IF f.state.curLensName = f.lens
                                    THEN mergeGraphs(f.state.graphData, unbound, updatedGraph).graph
                                    ELSE updatedGraph]
  PROVE  StateOK(state)
<1>1. PICK h : h = vizGraphFromLensScope(f.scope)
  OBVIOUS
<1>2. PICK g : g = f.state.graphData
  OBVIOUS
<1>3. PICK m : m = mergeGraphs(g, unbound, h).graph
  OBVIOUS
<1>4. state = [curLensName |-> f.lens,
               graphData |-> IF f.state.curLensName = f.lens THEN m ELSE h]
  BY <1>1, <1>2, <1>3
<1>5. f.lens \in Lenses /\ f.lens # NoLens /\ ScopeOK(f.scope, f.lens) /\ StateOK(f.state)
  BY LensAssumption DEF FetchOK
<1>6. /\ DOMAIN h.nodes \subseteq NodesOf(f.lens) /\ h.fresh \subseteq h.links
      /\ RiskEdges => Joined(h)
  BY <1>1, <1>5, GraphOfScope DEF ScopeOK
<1>7. CASE f.state.curLensName = f.lens
  <2>1. /\ DOMAIN g.nodes \subseteq NodesOf(f.lens) /\ g.fresh \subseteq g.links
        /\ RiskEdges => Joined(g)
    BY <1>2, <1>5, <1>7 DEF StateOK
  <2>2. unbound \subseteq g.links
    BY <1>2, <2>1 DEF UnboundAtArrival
  <2>3. /\ DOMAIN m.nodes = DOMAIN g.nodes \union DOMAIN h.nodes
        /\ m.links \subseteq g.links \union h.links /\ m.fresh \subseteq m.links
    BY <1>3, <2>2, Merged
  <2>4. RiskEdges => Joined(m)
    BY <1>6, <2>1, <2>3 DEF Joined
  <2>5. state.curLensName = f.lens /\ state.graphData = m
    BY <1>4, <1>7
  <2> QED BY <1>5, <1>6, <2>1, <2>3, <2>4, <2>5 DEF StateOK
<1>8. CASE f.state.curLensName # f.lens
  <2>1. state.curLensName = f.lens /\ state.graphData = h
    BY <1>4, <1>8
  <2> QED BY <1>5, <1>6, <2>1 DEF StateOK
<1> QED BY <1>7, <1>8

\* A step of the page leaves the world alone and brings good requests.
LEMMA FetchesStep ==
  ASSUME Inv, UNCHANGED world, failures' \in 0..MaxFailures,
         lensName' \in Lenses \union {NoLens}, StateOK(display'),
         NEW S, fetches' \subseteq fetches \union S, \A f \in S : FetchOK(f)
  PROVE  Inv'
<1>1. \A f \in fetches' : FetchOK(f)
  BY DEF Inv
<1>2. \A f : FetchOK(f)' <=> FetchOK(f)
  BY DEF FetchOK, StateOK, ScopeOK, Closed, Joined, RiskEdges, NodesOf, Uids
<1>3. StateOK(display)'
  BY DEF StateOK, Joined, RiskEdges, NodesOf, Uids
<1>4. WorldOK' /\ changes' \in 0..MaxChanges
  BY DEF Inv, WorldOK, world, NodesOf, Uids
<1> QED BY <1>1, <1>2, <1>3, <1>4 DEF Inv

\* A step of the world leaves the page alone.
LEMMA WorldStep ==
  ASSUME Inv, Change, WorldOK'
  PROVE  Inv'
<1>1. changes' \in 0..MaxChanges
  BY LensAssumption DEF Inv, Change
<1>2. UNCHANGED <<failures, lensName, display, fetches>>
  BY DEF Change
<1>3. StateOK(display)' /\ \A f \in fetches' : FetchOK(f)'
  BY <1>2 DEF Inv, FetchOK, StateOK, ScopeOK, Closed, Joined, RiskEdges, NodesOf, Uids
<1> QED BY <1>1, <1>2, <1>3 DEF Inv

LEMMA StepInv == Inv /\ [Next]_vars => Inv'
<1> SUFFICES ASSUME Inv, [Next]_vars PROVE Inv'
  OBVIOUS
<1>0. /\ lensName \in Lenses \union {NoLens} /\ StateOK(display)
      /\ failures \in 0..MaxFailures /\ WorldOK
      /\ \A f \in fetches : FetchOK(f)
  BY DEF Inv
<1>1. CASE UNCHANGED vars
  <2>1. PICK S : S = {}
    OBVIOUS
  <2>2. /\ UNCHANGED world /\ failures' = failures /\ lensName' = lensName
        /\ display' = display /\ fetches' \subseteq fetches \union S
    BY <1>1 DEF vars, world
  <2> QED BY <1>0, <2>1, <2>2, FetchesStep
<1>2. ASSUME NEW l \in Lenses \union {NoLens}, SelectLens(l) PROVE Inv'
  <2>1. PICK S : S = newFetches(l, display)
    OBVIOUS
  <2>2. /\ UNCHANGED world /\ failures' = failures /\ lensName' = l /\ display' = display
        /\ fetches' \subseteq fetches \union S
    BY <1>2, <2>1 DEF SelectLens
  <2>3. \A f \in S : FetchOK(f)
    BY <1>0, <2>1, NewFetchesOK
  <2> QED BY <1>0, <2>2, <2>3, FetchesStep
<1>3. CASE FetchTick
  <2>1. PICK S : S = newFetches(lensName, display)
    OBVIOUS
  <2>2. /\ UNCHANGED world /\ failures' = failures /\ lensName' = lensName
        /\ display' = display /\ fetches' \subseteq fetches \union S
    BY <1>3, <2>1 DEF FetchTick
  <2>3. \A f \in S : FetchOK(f)
    BY <1>0, <2>1, NewFetchesOK
  <2> QED BY <1>0, <2>2, <2>3, FetchesStep
<1>4. ASSUME NEW f \in fetches, AnswerFetch(f) PROVE Inv'
  <2>1. PICK reply : reply = lens_scope(dgraph, schemas, f.lens)
    OBVIOUS
  <2>2. PICK answer : answer = IF reply.ok THEN "answered" ELSE "failed"
    OBVIOUS
  <2>3. PICK S : S = {becomes(f, answer, reply.scope)}
    OBVIOUS
  <2>4. /\ UNCHANGED world /\ failures' = failures /\ lensName' = lensName
        /\ display' = display /\ fetches' \subseteq fetches \union S
    BY <1>4, <2>1, <2>2, <2>3 DEF AnswerFetch
  <2>5. FetchOK(f) /\ f.lens \in Lenses
    BY <1>0 DEF FetchOK
  <2>6. ScopeOK(handleLensScope(dgraph, f.lens), f.lens)
    BY <1>0, <2>5, AnsweredScope
  <2>7. answer = "answered" => ScopeOK(reply.scope, f.lens)
    <3>1. CASE \A u \in uids_in_scope(dgraph, f.lens) : resolveType(schemas, dgraph.type[u])
      BY <2>1, <2>6, <3>1 DEF lens_scope
    <3>2. CASE ~\A u \in uids_in_scope(dgraph, f.lens) : resolveType(schemas, dgraph.type[u])
      BY <2>1, <2>2, <3>2 DEF lens_scope
    <3> QED BY <3>1, <3>2
  <2>8. answer \in {"answered", "failed"}
    BY <2>2
  <2>9. FetchOK(becomes(f, answer, reply.scope))
    BY <2>5, <2>7, <2>8 DEF FetchOK, becomes
  <2>10. \A g \in S : FetchOK(g)
    BY <2>3, <2>9
  <2> QED BY <1>0, <2>4, <2>10, FetchesStep
<1>5. ASSUME NEW f \in fetches, LoseFetch(f) PROVE Inv'
  <2>1. PICK S : S = {becomes(f, "failed", << >>)}
    OBVIOUS
  <2>2. /\ UNCHANGED world /\ lensName' = lensName /\ display' = display
        /\ fetches' \subseteq fetches \union S
    BY <1>5, <2>1 DEF LoseFetch
  <2>3. failures' \in 0..MaxFailures
    BY <1>0, <1>5, LensAssumption DEF LoseFetch
  <2>4. FetchOK(becomes(f, "failed", << >>))
    BY <1>0 DEF FetchOK, becomes
  <2>5. \A g \in S : FetchOK(g)
    BY <2>1, <2>4
  <2> QED BY <1>0, <2>2, <2>3, <2>5, FetchesStep
<1>6. ASSUME NEW f \in fetches, FetchFailed(f) PROVE Inv'
  <2>1. PICK S : S = {}
    OBVIOUS
  <2>2. /\ UNCHANGED world /\ failures' = failures /\ lensName' = lensName
        /\ display' = display /\ fetches' \subseteq fetches \union S
    BY <1>6, <2>1 DEF FetchFailed
  <2> QED BY <1>0, <2>1, <2>2, FetchesStep
<1>7. ASSUME NEW f \in fetches, NEW unbound \in UnboundAtArrival(f), UpdateGraph(f, unbound)
      PROVE  Inv'
  <2>1. PICK h : h = vizGraphFromLensScope(f.scope)
    OBVIOUS
  <2>2. PICK graph : graph = IF f.state.curLensName = f.lens
                             THEN mergeGraphs(f.state.graphData, unbound, h).graph ELSE h
    OBVIOUS
  <2>3. PICK new : new = [curLensName |-> f.lens, graphData |-> graph]
    OBVIOUS
  <2>4. f.answer = "answered" /\ setStateAfter(f, unbound, graph)
        /\ UNCHANGED <<world, failures, lensName>>
    BY <1>7, <2>1, <2>2 DEF UpdateGraph
  <2>5. StateOK(new)
    BY <1>0, <2>1, <2>2, <2>3, <2>4, NewStateOK
  <2>6. CASE display' = new /\ fetches' = (fetches \ {f}) \union newFetches(lensName, new)
    <3>1. PICK S : S = newFetches(lensName, new)
      OBVIOUS
    <3>2. \A g \in S : FetchOK(g)
      BY <1>0, <2>5, <3>1, NewFetchesOK
    <3>3. fetches' \subseteq fetches \union S
      BY <2>6, <3>1
    <3> QED BY <1>0, <2>4, <2>5, <2>6, <3>2, <3>3, FetchesStep
  <2>7. CASE fetches' = fetches \ {f} /\ display' = display
    <3>1. PICK S : S = {}
      OBVIOUS
    <3>2. fetches' \subseteq fetches \union S
      BY <2>7
    <3> QED BY <1>0, <2>4, <2>7, <3>1, <3>2, FetchesStep
  <2> QED BY <2>3, <2>4, <2>6, <2>7 DEF setStateAfter
<1>8. ASSUME NEW a \in Attachable, Attach(a[1], a[2]) PROVE Inv'
  <2>1. a[1] \in Lenses /\ a[2] \in Uids /\ a[2] \in NodesOf(a[1])
    BY LensAssumption DEF NodesOf
  <2>2. PICK s : s = [dgraph.scope EXCEPT ![a[1]] = @ \union {a[2]}]
    OBVIOUS
  <2>3. s \in [Lenses -> SUBSET Uids] /\ \A l \in Lenses : s[l] \subseteq NodesOf(l)
    BY <1>0, <2>1, <2>2 DEF WorldOK
  <2>4. dgraph' = holding(s, dgraph.edges) /\ Change
    BY <1>8, <2>2 DEF Attach
  <2>5. /\ dgraph'.type = Initially.type /\ dgraph'.scope = s
        /\ dgraph'.edges = dgraph.edges
    BY <2>4 DEF holding
  <2>6. WorldOK'
    BY <1>0, <2>3, <2>5 DEF WorldOK, NodesOf, Uids
  <2> QED BY <2>4, <2>6, WorldStep
<1>9. ASSUME NEW e \in Connectable, Connect(e) PROVE Inv'
  <2>1. dgraph' = holding(dgraph.scope, dgraph.edges \union {e}) /\ Change
    BY <1>9 DEF Connect
  <2>2. /\ dgraph'.type = Initially.type /\ dgraph'.scope = dgraph.scope
        /\ dgraph'.edges = dgraph.edges \union {e}
    BY <2>1 DEF holding
  <2>3. WorldOK'
    BY <1>0, <2>2 DEF WorldOK, NodesOf, Uids
  <2> QED BY <2>1, <2>3, WorldStep
<1>10. ASSUME NEW u \in Uids, Prune(u) PROVE Inv'
  <2>1. PICK s : s = [l \in Lenses |-> dgraph.scope[l] \ {u}]
    OBVIOUS
  <2>2. PICK edges : edges = {e \in dgraph.edges : u \notin {e[1], e[3]}}
    OBVIOUS
  <2>3. s \in [Lenses -> SUBSET Uids] /\ \A l \in Lenses : s[l] \subseteq NodesOf(l)
    BY <1>0, <2>1 DEF WorldOK
  <2>4. dgraph' = holding(s, edges) /\ Change
    BY <1>10, <2>1, <2>2 DEF Prune
  <2>5. dgraph'.type = Initially.type /\ dgraph'.scope = s /\ dgraph'.edges = edges
    BY <2>4 DEF holding
  <2>6. WorldOK'
    BY <1>0, <2>2, <2>3, <2>5 DEF WorldOK, NodesOf, Uids
  <2> QED BY <2>4, <2>6, WorldStep
<1>11. ASSUME NEW t \in PluginTypes, Deploy(t) PROVE Inv'
  <2>1. dgraph' = dgraph /\ Change
    BY <1>11 DEF Deploy
  <2>2. WorldOK'
    BY <1>0, <2>1 DEF WorldOK, NodesOf, Uids
  <2> QED BY <2>1, <2>2, WorldStep
<1> QED BY <1>1, <1>2, <1>3, <1>4, <1>5, <1>6, <1>7, <1>8, <1>9, <1>10, <1>11 DEF Next

LEMMA Invariance == Spec => []Inv
  BY InitInv, StepInv, PTL DEF Spec

-----------------------------------------------------------------------------
(* The theorems *)

LEMMA StatesOK == Inv => \A state \in States : StateOK(state)
  BY DEF Inv, States, FetchOK

\* The page, its closures and the world are well formed.
THEOREM TypeCorrect == Spec => []TypeOK
<1>1. Inv => TypeOK
  <2> SUFFICES ASSUME Inv PROVE TypeOK
    OBVIOUS
  <2>1. ASSUME NEW state \in States
        PROVE  DOMAIN state.graphData.nodes \subseteq Uids
    <3>1. StateOK(state)
      BY StatesOK
    <3>2. CASE state.curLensName = NoLens
      BY <3>1, <3>2 DEF StateOK, EmptyGraph, NoNodes
    <3>3. CASE state.curLensName # NoLens
      BY <3>1, <3>3, NodesOfLens DEF StateOK
    <3> QED BY <3>2, <3>3
  <2>2. \A state \in States : /\ state.curLensName \in Lenses \union {NoLens}
                              /\ state.graphData.fresh \subseteq state.graphData.links
    BY StatesOK DEF StateOK
  <2> QED BY <2>1, <2>2 DEF Inv, WorldOK, FetchOK, TypeOK
<1> QED BY <1>1, Invariance, PTL

\* Whatever answers come late, and in whatever order, the graph on the screen and those
\* that closures hold have nodes of the one lens they were set for.
THEOREM OneLens == Spec => []GraphOfOneLens
<1>1. Inv => GraphOfOneLens
  BY StatesOK DEF GraphOfOneLens, StateOK
<1> QED BY <1>1, Invariance, PTL

\* If edges named "risks" lead to risks, no link lacks a node: calcLinkRisk does not throw.
THEOREM NoLinkDangles ==
  ASSUME RiskEdges
  PROVE  Spec => []LinksJoinNodes
<1>1. Inv => LinksJoinNodes
  BY StatesOK DEF LinksJoinNodes, calcLinkRiskThrows, StateOK, Joined
<1> QED BY <1>1, Invariance, PTL
=============================================================================
